---- MODULE Spec2Model ----
(***************************************************************************)
(* Flow execution engine of swe-assignment-flow: FlowExecutionService      *)
(* (execution.service.ts), DelayProcessor (delay.processor.ts) and the     *)
(* idempotent action adapters, as a state machine over one execution       *)
(* document, the in-memory idempotency maps and the Bull delay queue.      *)
(* Every await of the code is a step boundary: a database operation is one *)
(* atomic step, and tasks (async invocations) interleave between steps.    *)
(***************************************************************************)
EXTENDS Naturals, Integers, Sequences, FiniteSets, TLC

\* ------------------------------------------------------------------ bounds
\* Transient errors the environment may raise inside executors, in total.
MaxFaults == 1
\* Deliveries of one resume job (Bull delivers at least once).
MaxDeliveries == 2
\* Calls the adapter clients make in AdapterSpec.
MaxCalls == 2
\* Requests the API clients make in CatalogSpec.
MaxHttp == 2
\* The split configurations checked have at most MaxGroups condition
\* groups of at most MaxConditions conditions each.
MaxGroups == 2

MaxConditions == 2

\* Edges of a flow handed to the validator in ValidatorSpec.
MaxEdges == 4

\* ------------------------------------------------------- program constants
\* executeNode retries while retryCount < MaxRetries.
MaxRetries == 3

None == "none"

\* ------------------------------------------------------------- JS values
\* A context value: a number, a string (a sequence of one-character
\* strings, so that contains and numeric parsing are computed) or undefined.
Num(n) == [t |-> "num", n |-> n, s |-> <<>>]
Str(s) == [t |-> "str", n |-> 0, s |-> s]
Undef == [t |-> "undef", n |-> 0, s |-> <<>>]

NaN == [ok |-> FALSE, n |-> 0]
Number_(n) == [ok |-> TRUE, n |-> n]

DigitChars == <<"0", "1", "2", "3", "4", "5", "6", "7", "8", "9">>

IsDigit(c) == \E i \in 1..10 : DigitChars[i] = c

DigitVal(c) == (CHOOSE i \in 1..10 : DigitChars[i] = c) - 1

RECURSIVE ParseDigits(_, _)
ParseDigits(s, acc) ==
  IF s = <<>> THEN acc ELSE ParseDigits(Tail(s), acc * 10 + DigitVal(Head(s)))

\* Number(v): undefined -> NaN, "" -> 0, a digit string -> its value,
\* any other string -> NaN.
ToNumber(v) ==
  CASE v.t = "num" -> Number_(v.n)
    [] v.t = "undef" -> NaN
    [] OTHER -> IF \A i \in 1..Len(v.s) : IsDigit(v.s[i])
                THEN Number_(ParseDigits(v.s, 0))
                ELSE NaN

RECURSIVE FormatNat(_)
FormatNat(n) ==
  IF n < 10 THEN <<DigitChars[n + 1]>>
  ELSE FormatNat(n \div 10) \o <<DigitChars[(n % 10) + 1]>>

\* String(v)
StringOf(v) ==
  CASE v.t = "num" -> FormatNat(v.n)
    [] v.t = "undef" -> <<"u", "n", "d", "e", "f", "i", "n", "e", "d">>
    [] OTHER -> v.s

\* a.includes(b)
Includes(a, b) ==
  \E i \in 0..Len(a) :
    /\ i + Len(b) <= Len(a)
    /\ \A j \in 1..Len(b) : a[i + j] = b[j]

\* a == b (loose equality) on numbers, strings and undefined.
LooseEq(a, b) ==
  CASE a.t = b.t -> a = b
    [] a.t = "undef" \/ b.t = "undef" -> FALSE
    [] OTHER -> LET x == ToNumber(a)
                    y == ToNumber(b)
                IN x.ok /\ y.ok /\ x.n = y.n

\* Variant of NumCmp that compares the operands the other way round.
NumCmpReversed(op, a, b) ==
  LET x == ToNumber(a)
      y == ToNumber(b)
  IN /\ x.ok
     /\ y.ok
     /\ CASE op = "greater_than" -> y.n > x.n
          [] op = "less_than" -> y.n < x.n
          [] op = "greater_or_equal" -> y.n >= x.n
          [] OTHER -> y.n <= x.n

NumCmp(op, a, b) ==
  LET x == ToNumber(a)
      y == ToNumber(b)
  IN /\ x.ok
     /\ y.ok
     /\ CASE op = "greater_than" -> x.n > y.n
          [] op = "less_than" -> x.n < y.n
          [] op = "greater_or_equal" -> x.n >= y.n
          [] OTHER -> x.n <= y.n

\* data[field]
Lookup(data, field) == IF field \in DOMAIN data THEN data[field] ELSE Undef

\* One condition of a group: the switch on cond.operator.
EvalCondition(cond, data) ==
  LET fieldValue == Lookup(data, cond.field)
      condValue == cond.value
  IN CASE cond.operator = "equals" -> LooseEq(fieldValue, condValue)
       [] cond.operator = "not_equals" -> ~LooseEq(fieldValue, condValue)
       [] cond.operator = "contains" ->
            Includes(StringOf(fieldValue), StringOf(condValue))
       [] cond.operator \in {"greater_than", "less_than", "greater_or_equal",
                             "less_or_equal"} ->
            NumCmp(cond.operator, fieldValue, condValue)
       [] OTHER -> FALSE

\* Variant of Combine in which an empty list under AND yields false.
CombineNonEmpty(logic, results) ==
  IF logic = "AND"
  THEN results # <<>> /\ \A i \in 1..Len(results) : results[i]
  ELSE \E i \in 1..Len(results) : results[i]

\* results.every(r => r) under AND, results.some(r => r) otherwise.
Combine(logic, results) ==
  IF logic = "AND" THEN \A i \in 1..Len(results) : results[i]
  ELSE \E i \in 1..Len(results) : results[i]

\* x || d for an optional configuration field.
OrDefault(rec, field, d) == IF field \in DOMAIN rec THEN rec[field] ELSE d

EvalGroup(group, data) ==
  LET conditions == OrDefault(group, "conditions", <<>>)
  IN Combine(OrDefault(group, "groupLogic", "AND"),
             [i \in 1..Len(conditions) |-> EvalCondition(conditions[i], data)])

\* groupResults of executeConditionalSplit.
GroupResults(config, data) ==
  LET conditionGroups == OrDefault(config, "conditionGroups", <<>>)
  IN [i \in 1..Len(conditionGroups) |-> EvalGroup(conditionGroups[i], data)]

\* finalResult of executeConditionalSplit.
EvalConfig(config, data) ==
  Combine(OrDefault(config, "groupsLogic", "AND"), GroupResults(config, data))

\* ------------------------------------------------------------------ flows
\* NodeType (flow.schema.ts); UNKNOWN stands for a type the switch of
\* executeNode has no case for.
TRIGGER == "TRIGGER"
SEND_MESSAGE == "SEND_MESSAGE"
TIME_DELAY == "TIME_DELAY"
CONDITIONAL_SPLIT == "CONDITIONAL_SPLIT"
ADD_ORDER_NOTE == "ADD_ORDER_NOTE"
ADD_CUSTOMER_NOTE == "ADD_CUSTOMER_NOTE"
END == "END"

ActionTypes == {SEND_MESSAGE, ADD_ORDER_NOTE, ADD_CUSTOMER_NOTE}

FlowNode(id, type, config) == [id |-> id, type |-> type, config |-> config]

\* sourceHandle is None when the edge has none.
FlowEdge(id, source, target, sourceHandle) ==
  [id |-> id, source |-> source, target |-> target,
   sourceHandle |-> sourceHandle]

EmptyConfig == <<>>

Text == Str(<<"h", "i">>)

MessageConfig == [message |-> Text]

NoteConfig == [note |-> Text]

\* order_total greater_than '50', one group, AND (createDemoFlow).
DemoCondition ==
  [conditionGroups |->
     <<[conditions |-> <<[field |-> "order_total",
                          operator |-> "greater_than",
                          value |-> Str(<<"5", "0">>)]>>,
        groupLogic |-> "AND"]>>,
   groupsLogic |-> "AND"]

DelayConfig == [duration |-> 10, unit |-> "seconds"]

\* trigger -> message -> note -> end
LinearFlow ==
  [name |-> "linear",
   nodes |-> <<FlowNode("trigger", TRIGGER, EmptyConfig),
               FlowNode("message", SEND_MESSAGE, MessageConfig),
               FlowNode("note", ADD_ORDER_NOTE, NoteConfig),
               FlowNode("end", END, EmptyConfig)>>,
   edges |-> <<FlowEdge("e1", "trigger", "message", None),
               FlowEdge("e2", "message", "note", None),
               FlowEdge("e3", "note", "end", None)>>]

\* trigger fans out into a and b, both routed into the same END.
FanOutFlow ==
  [name |-> "fanout",
   nodes |-> <<FlowNode("trigger", TRIGGER, EmptyConfig),
               FlowNode("a", ADD_ORDER_NOTE, NoteConfig),
               FlowNode("b", ADD_CUSTOMER_NOTE, NoteConfig),
               FlowNode("end", END, EmptyConfig)>>,
   edges |-> <<FlowEdge("e1", "trigger", "a", None),
               FlowEdge("e2", "trigger", "b", None),
               FlowEdge("e3", "a", "end", None),
               FlowEdge("e4", "b", "end", None)>>]

\* A diamond: branch root_0 reaches the message node m through a, branch
\* root_1 reaches it directly.
DiamondFlow ==
  [name |-> "diamond",
   nodes |-> <<FlowNode("trigger", TRIGGER, EmptyConfig),
               FlowNode("a", ADD_ORDER_NOTE, NoteConfig),
               FlowNode("m", SEND_MESSAGE, MessageConfig),
               FlowNode("end", END, EmptyConfig)>>,
   edges |-> <<FlowEdge("e1", "trigger", "a", None),
               FlowEdge("e2", "trigger", "m", None),
               FlowEdge("e3", "a", "m", None),
               FlowEdge("e4", "m", "end", None)>>]

\* The built-in demo flow (FlowsController.createDemoFlow).
DemoFlow ==
  [name |-> "demo",
   nodes |-> <<FlowNode("trigger-1", TRIGGER, EmptyConfig),
               FlowNode("condition-1", CONDITIONAL_SPLIT, DemoCondition),
               FlowNode("message-1", SEND_MESSAGE, MessageConfig),
               FlowNode("delay-1", TIME_DELAY, DelayConfig),
               FlowNode("note-1", ADD_ORDER_NOTE, NoteConfig),
               FlowNode("message-2", SEND_MESSAGE, MessageConfig),
               FlowNode("note-2", ADD_ORDER_NOTE, NoteConfig),
               FlowNode("end-1", END, EmptyConfig)>>,
   edges |-> <<FlowEdge("e1", "trigger-1", "condition-1", None),
               FlowEdge("e2", "condition-1", "message-1", "true"),
               FlowEdge("e3", "message-1", "delay-1", None),
               FlowEdge("e4", "delay-1", "note-1", None),
               FlowEdge("e5", "note-1", "end-1", None),
               FlowEdge("e6", "condition-1", "message-2", "false"),
               FlowEdge("e7", "message-2", "note-2", None),
               FlowEdge("e8", "note-2", "end-1", None)>>]

\* trigger -> delay -> end
DelayEndFlow ==
  [name |-> "delayEnd",
   nodes |-> <<FlowNode("trigger", TRIGGER, EmptyConfig),
               FlowNode("delay", TIME_DELAY, DelayConfig),
               FlowNode("end", END, EmptyConfig)>>,
   edges |-> <<FlowEdge("e1", "trigger", "delay", None),
               FlowEdge("e2", "delay", "end", None)>>]

\* trigger -> delay, the delay has two next nodes, both routed into END.
DelayFanOutFlow ==
  [name |-> "delayFanOut",
   nodes |-> <<FlowNode("trigger", TRIGGER, EmptyConfig),
               FlowNode("delay", TIME_DELAY, DelayConfig),
               FlowNode("a", ADD_ORDER_NOTE, NoteConfig),
               FlowNode("b", ADD_CUSTOMER_NOTE, NoteConfig),
               FlowNode("end", END, EmptyConfig)>>,
   edges |-> <<FlowEdge("e1", "trigger", "delay", None),
               FlowEdge("e2", "delay", "a", None),
               FlowEdge("e3", "delay", "b", None),
               FlowEdge("e4", "a", "end", None),
               FlowEdge("e5", "b", "end", None)>>]

\* trigger -> message whose config.message is a number: message.match is
\* not a function, so executeSendMessage throws on every attempt.
BrokenMessageFlow ==
  [name |-> "broken",
   nodes |-> <<FlowNode("trigger", TRIGGER, EmptyConfig),
               FlowNode("note", ADD_ORDER_NOTE, NoteConfig),
               FlowNode("message", SEND_MESSAGE, [message |-> Num(42)]),
               FlowNode("end", END, EmptyConfig)>>,
   edges |-> <<FlowEdge("e1", "trigger", "note", None),
               FlowEdge("e2", "note", "message", None),
               FlowEdge("e3", "message", "end", None)>>]

\* trigger -> a node of a type executeNode has no case for -> end
UnknownTypeFlow ==
  [name |-> "unknown",
   nodes |-> <<FlowNode("trigger", TRIGGER, EmptyConfig),
               FlowNode("x", "WEBHOOK", EmptyConfig),
               FlowNode("end", END, EmptyConfig)>>,
   edges |-> <<FlowEdge("e1", "trigger", "x", None),
               FlowEdge("e2", "x", "end", None)>>]

\* The broken flow after its message node's config has been repaired.
RepairedMessageFlow ==
  [BrokenMessageFlow EXCEPT !.nodes[3] = FlowNode("message", SEND_MESSAGE,
                                                  MessageConfig)]

\* trigger -> delay -> message whose config.message is a number -> end
DelayBrokenFlow ==
  [name |-> "delayBroken",
   nodes |-> <<FlowNode("trigger", TRIGGER, EmptyConfig),
               FlowNode("delay", TIME_DELAY, DelayConfig),
               FlowNode("message", SEND_MESSAGE, [message |-> Num(42)]),
               FlowNode("end", END, EmptyConfig)>>,
   edges |-> <<FlowEdge("e1", "trigger", "delay", None),
               FlowEdge("e2", "delay", "message", None),
               FlowEdge("e3", "message", "end", None)>>]

\* A flow saved without a trigger node: message -> end
NoTriggerFlow ==
  [name |-> "noTrigger",
   nodes |-> <<FlowNode("message", SEND_MESSAGE, MessageConfig),
               FlowNode("end", END, EmptyConfig)>>,
   edges |-> <<FlowEdge("e1", "message", "end", None)>>]

\* trigger -> end
DirectFlow ==
  [name |-> "direct",
   nodes |-> <<FlowNode("trigger", TRIGGER, EmptyConfig),
               FlowNode("end", END, EmptyConfig)>>,
   edges |-> <<FlowEdge("e1", "trigger", "end", None)>>]

\* trigger fans out into delay -> end and b -> end
ParallelDelayFlow ==
  [name |-> "parallelDelay",
   nodes |-> <<FlowNode("trigger", TRIGGER, EmptyConfig),
               FlowNode("delay", TIME_DELAY, DelayConfig),
               FlowNode("b", ADD_CUSTOMER_NOTE, NoteConfig),
               FlowNode("end", END, EmptyConfig)>>,
   edges |-> <<FlowEdge("e1", "trigger", "delay", None),
               FlowEdge("e2", "trigger", "b", None),
               FlowEdge("e3", "delay", "end", None),
               FlowEdge("e4", "b", "end", None)>>]

\* The diamond with a message node whose config.message is a number.
DiamondBrokenFlow ==
  [name |-> "diamondBroken",
   nodes |-> <<FlowNode("trigger", TRIGGER, EmptyConfig),
               FlowNode("a", ADD_ORDER_NOTE, NoteConfig),
               FlowNode("m", SEND_MESSAGE, [message |-> Num(42)]),
               FlowNode("end", END, EmptyConfig)>>,
   edges |-> <<FlowEdge("e1", "trigger", "a", None),
               FlowEdge("e2", "trigger", "m", None),
               FlowEdge("e3", "a", "m", None),
               FlowEdge("e4", "m", "end", None)>>]

\* trigger fans out into a broken message node and into b -> c; all paths
\* are routed into END.
FanOutBrokenFlow ==
  [name |-> "fanoutBroken",
   nodes |-> <<FlowNode("trigger", TRIGGER, EmptyConfig),
               FlowNode("message", SEND_MESSAGE, [message |-> Num(42)]),
               FlowNode("b", SEND_MESSAGE, MessageConfig),
               FlowNode("c", ADD_CUSTOMER_NOTE, NoteConfig),
               FlowNode("end", END, EmptyConfig)>>,
   edges |-> <<FlowEdge("e1", "trigger", "message", None),
               FlowEdge("e2", "trigger", "b", None),
               FlowEdge("e3", "message", "end", None),
               FlowEdge("e4", "b", "c", None),
               FlowEdge("e5", "c", "end", None)>>]

\* trigger fans out into d1 -> end and d2 -> end
TwoDelaysFlow ==
  [name |-> "twoDelays",
   nodes |-> <<FlowNode("trigger", TRIGGER, EmptyConfig),
               FlowNode("d1", TIME_DELAY, DelayConfig),
               FlowNode("d2", TIME_DELAY, DelayConfig),
               FlowNode("end", END, EmptyConfig)>>,
   edges |-> <<FlowEdge("e1", "trigger", "d1", None),
               FlowEdge("e2", "trigger", "d2", None),
               FlowEdge("e3", "d1", "end", None),
               FlowEdge("e4", "d2", "end", None)>>]

\* trigger fans out into a delay and straight into END; the delay, in
\* branch root_0, has two next nodes: a, routed into END, and END.
BranchDelayFlow ==
  [name |-> "branchDelay",
   nodes |-> <<FlowNode("trigger", TRIGGER, EmptyConfig),
               FlowNode("delay", TIME_DELAY, DelayConfig),
               FlowNode("a", ADD_ORDER_NOTE, NoteConfig),
               FlowNode("end", END, EmptyConfig)>>,
   edges |-> <<FlowEdge("e1", "trigger", "delay", None),
               FlowEdge("e2", "trigger", "end", None),
               FlowEdge("e3", "delay", "a", None),
               FlowEdge("e4", "delay", "end", None),
               FlowEdge("e5", "a", "end", None)>>]

\* trigger -> split; only the split's true handle has an edge.
SplitNoFalseFlow ==
  [name |-> "splitNoFalse",
   nodes |-> <<FlowNode("trigger", TRIGGER, EmptyConfig),
               FlowNode("split", CONDITIONAL_SPLIT, DemoCondition),
               FlowNode("message", SEND_MESSAGE, MessageConfig),
               FlowNode("end", END, EmptyConfig)>>,
   edges |-> <<FlowEdge("e1", "trigger", "split", None),
               FlowEdge("e2", "split", "message", "true"),
               FlowEdge("e3", "message", "end", None)>>]

\* trigger -> split with two edges on its true handle: the first to END, the
\* second to message -> end.
SplitTwoTrueFlow ==
  [name |-> "splitTwoTrue",
   nodes |-> <<FlowNode("trigger", TRIGGER, EmptyConfig),
               FlowNode("split", CONDITIONAL_SPLIT, DemoCondition),
               FlowNode("message", SEND_MESSAGE, MessageConfig),
               FlowNode("end", END, EmptyConfig)>>,
   edges |-> <<FlowEdge("e1", "trigger", "split", None),
               FlowEdge("e2", "split", "end", "true"),
               FlowEdge("e3", "split", "message", "true"),
               FlowEdge("e4", "message", "end", None)>>]

FlowNames == {"linear", "fanout", "diamond", "demo", "delayEnd",
              "delayFanOut", "broken", "unknown", "delayBroken", "noTrigger",
              "direct", "parallelDelay", "diamondBroken", "fanoutBroken",
              "twoDelays", "branchDelay", "splitNoFalse",
              "splitTwoTrue"}

\* The flows collection: the flow document of each name.
FlowNamed(name) ==
  CASE name = "linear" -> LinearFlow
    [] name = "fanout" -> FanOutFlow
    [] name = "diamond" -> DiamondFlow
    [] name = "demo" -> DemoFlow
    [] name = "delayEnd" -> DelayEndFlow
    [] name = "delayFanOut" -> DelayFanOutFlow
    [] name = "unknown" -> UnknownTypeFlow
    [] name = "delayBroken" -> DelayBrokenFlow
    [] name = "noTrigger" -> NoTriggerFlow
    [] name = "direct" -> DirectFlow
    [] name = "parallelDelay" -> ParallelDelayFlow
    [] name = "diamondBroken" -> DiamondBrokenFlow
    [] name = "fanoutBroken" -> FanOutBrokenFlow
    [] name = "twoDelays" -> TwoDelaysFlow
    [] name = "branchDelay" -> BranchDelayFlow
    [] name = "splitNoFalse" -> SplitNoFalseFlow
    [] name = "splitTwoTrue" -> SplitTwoTrueFlow
    [] OTHER -> BrokenMessageFlow

\* Trigger payloads.
Payloads == {[order_total |-> Num(75)], [order_total |-> Num(10)]}

\* Variant of MessageThrows for which every message node throws.
AlwaysThrows(config) == TRUE

\* Variant of Rejected that lets an error reach the awaiting caller while
\* the node still has retries left.
RejectedAtFirstError(ts, k) == ts[k].pc \in {"rejected", "catch"}

\* Variant of FindActiveByTriggerType that does not look at isActive.
FindByTriggerType(docs, triggerType) ==
  {id \in DOMAIN docs : docs[id].triggerType = triggerType}

\* Variant of Refuses for which activate never throws.
RefusesNever(validationResult) == FALSE

\* Variant of HasCycles that finds no cycle.
NeverCycles(startNodeId, edges) == FALSE

\* Variant of AlreadyExecuted that never finds the node executed.
NeverExecuted(nodes, id) == FALSE

\* Variant of EndMissing whose filter matches every document.
EndMissingAlways(nodes, id) == TRUE

\* Variant of PathOf that finds no path to inherit.
PathOfNothing(bs, id) == <<>>

\* Variant of ResultEdge that falls back to the first outgoing edge when no
\* sourceHandle matches.
ResultEdgeOrFirst(f, id, finalResult) ==
  LET out == SelectSeq(f.edges, LAMBDA e : e.source = id)
      h == IF finalResult THEN "true" ELSE "false"
      hits == {i \in 1..Len(out) : out[i].sourceHandle = h}
  IN IF out = <<>> THEN [found |-> FALSE, target |-> ""]
     ELSE IF hits = {} THEN [found |-> TRUE, target |-> out[1].target]
     ELSE [found |-> TRUE,
           target |-> out[CHOOSE i \in hits : \A j \in hits : i <= j].target]

\* Variant of Targets that follows no edge.
NoTargets(f, id, branchId) == <<>>

\* Variant of ExpectedBranches that expects a single arrival.
ExpectedOne(f, id) == 1

\* Variant of Serialize that turns every value into a string.
SerializeStringly(data) == [f \in DOMAIN data |-> [data[f] EXCEPT !.t = "str"]]

\* Variant of HasKey that never finds the key.
HasKeyNever(map, key) == FALSE

\* flow.edges.filter(e => e.source === id), in order.
OutEdges(f, id) == SelectSeq(f.edges, LAMBDA e : e.source = id)

\* flow.edges.filter(e => e.target === id), in order.
InEdges(f, id) == SelectSeq(f.edges, LAMBDA e : e.target = id)

HasNode(f, id) == \E i \in 1..Len(f.nodes) : f.nodes[i].id = id

\* flow.nodes.find(n => n.id === id)
NodeById(f, id) ==
  f.nodes[CHOOSE i \in 1..Len(f.nodes) :
            /\ f.nodes[i].id = id
            /\ \A j \in 1..(i - 1) : f.nodes[j].id # id]

NodeIds(f) == {f.nodes[i].id : i \in 1..Len(f.nodes)}

\* ------------------------------------------------------------------ state
VARIABLES
  flow,           \* the flow document the run executes
  triggerData,    \* Execution.triggerData
  status,         \* Execution.status
  branches,       \* Execution.branches
  executedNodes,  \* Execution.executedNodes
  resumeAt,       \* Execution.resumeAt
  runError,       \* Execution.error / errorDetails
  sentMessages,   \* FlowExecutionService.sentMessages (key -> result)
  orderNotes,     \* FlowExecutionService.orderNotes
  customerNotes,  \* FlowExecutionService.customerNotes
  now,            \* Date.now(), in units of the shortest timer
  delayQueue,     \* the 'flow-delays' Bull queue: jobs with delivery counts
  tasks,          \* the async invocations in flight or settled, by key
  faults,         \* transient errors raised so far
  calls,          \* history: executor invocations (node, branch, data, origin)
  effects,        \* history: external calls performed, per idempotency key
  snapshot,       \* history: the record as a redelivered job found it
  idempotency,    \* MockServicesService: the idempotency map of each adapter
  storage,        \* MockServicesService: the stored records of each adapter
  requests,       \* history: the calls made to MockServicesService
  flowDocs,       \* the flows collection: _id -> flow document
  executionDocs,  \* the executions collection, as fireTrigger's runs fill it
  http,           \* the API requests made, each with its position and result
  candidate,      \* the flow handed to FlowValidatorService.validate
  validation      \* the ValidationResult it returned

engineVars == <<flow, triggerData, status, branches, executedNodes, resumeAt, runError,
                sentMessages, orderNotes, customerNotes, now, delayQueue,
                tasks, faults, calls, effects, snapshot>>

serviceVars == <<idempotency, storage, requests>>

catalogVars == <<flowDocs, executionDocs, http, candidate, validation>>

\* The run's _id and the flow's _id: ObjectIds of two collections.
executionId == "e1"
flowId == "f1"

\* Variant of IdempotencyKey that leaves the node id out of the key.
KeyOfRun(execId, nodeId) == execId

\* `${executionId}_${node.id}`
IdempotencyKey(execId, nodeId) == execId \o "_" \o nodeId

Index == <<"0", "1", "2", "3">>

\* `${branchId}_${i}`
ChildBranchId(branchId, i) == branchId \o "_" \o Index[i + 1]

\* --------------------------------------------------- the execution record
NoResult == [none |-> TRUE]

\* The element $push-ed for a node reached for the first time.
RunningEntry(node) ==
  [nodeId |-> node.id, nodeType |-> node.type, status |-> "running",
   idempotencyKey |-> IdempotencyKey(executionId, node.id),
   retryCount |-> 0, arrivalCount |-> 0, error |-> None, result |-> NoResult]

\* { 'executedNodes.nodeId': id } matches.
HasEntry(nodes, id) == \E i \in 1..Len(nodes) : nodes[i].nodeId = id

\* The element the positional operator $ addresses: the first match.
FirstIndex(nodes, id) ==
  CHOOSE i \in 1..Len(nodes) :
    /\ nodes[i].nodeId = id
    /\ \A j \in 1..(i - 1) : nodes[j].nodeId # id

\* executedNodes.find(n => n.nodeId === id)
FirstEntry(nodes, id) == nodes[FirstIndex(nodes, id)]

\* updateOne({'executedNodes.nodeId': id}, {$set: {'executedNodes.$.f': v}}):
\* a no-op when nothing matches.
SetEntry(nodes, id, upd) ==
  IF HasEntry(nodes, id)
  THEN [nodes EXCEPT ![FirstIndex(nodes, id)] =
          [f \in DOMAIN @ |-> IF f \in DOMAIN upd THEN upd[f] ELSE @[f]]]
  ELSE nodes

HasBranch(bs, id) == \E i \in 1..Len(bs) : bs[i].branchId = id

FirstBranch(bs, id) ==
  CHOOSE i \in 1..Len(bs) :
    /\ bs[i].branchId = id
    /\ \A j \in 1..(i - 1) : bs[j].branchId # id

\* updateOne({'branches.branchId': id}, {$set: {'branches.$.status': st}})
SetBranchStatus(bs, id, st) ==
  IF HasBranch(bs, id)
  THEN [bs EXCEPT ![FirstBranch(bs, id)].status = st]
  ELSE bs

Branch(id, st, nodeId, path) ==
  [branchId |-> id, status |-> st, currentNodeId |-> nodeId, path |-> path]

\* ------------------------------------------------------------------ tasks
\* A task is one async invocation: executeFlow, handleDelayResume,
\* retryExecution (kind "flow", "resume", "retry") or executeNode ("node").
\* Its key is <<origin, branchId, nodeId>>; origin names the entry point.
NoKey == <<>>

HandlerKey(origin) == <<origin, "", "">>

NodeKey(origin, branchId, nodeId) == <<origin, branchId, nodeId>>

OriginOf(k) == k[1]

NewTask(kind, nodeId, branchId, data, parent, pc) ==
  [kind |-> kind, node |-> nodeId, branch |-> branchId, data |-> data,
   parent |-> parent, pc |-> pc, existing |-> FALSE, retryCount |-> 0,
   children |-> {}, started |-> 0, result |-> NoResult, err |-> None,
   job |-> 0, nextNodeIds |-> <<>>, parentPath |-> <<>>]

\* The invocation executeNode(node, flow, executionId, data, branchId).
NodeTask(f, nodeId, branchId, data, parent) ==
  NewTask("node", nodeId, branchId, data, parent,
          IF NodeById(f, nodeId).type = END THEN "end_insert" ELSE "find")

\* A promise is settled when its invocation returned or threw. A task that
\* awaits Promise.all of its children resolves when all of them have.
RECURSIVE Resolved(_, _)
Resolved(ts, k) ==
  \/ ts[k].pc \in {"resolved", "returned"}
  \/ /\ ts[k].pc = "await"
     /\ ts[k].kind = "node"
     /\ \A c \in ts[k].children : Resolved(ts, c)

Rejected(ts, k) == ts[k].pc = "rejected"

\* Promise.all rejects as soon as one of the awaited promises rejects.
AllRejects(ts, k) ==
  /\ ts[k].pc = "await"
  /\ \E c \in ts[k].children : Rejected(ts, c)

AllResolves(ts, k) ==
  /\ ts[k].pc = "await"
  /\ \A c \in ts[k].children : Resolved(ts, c)

ErrorOf(ts, k) ==
  IF ts[k].pc = "await"
  THEN ts[CHOOSE c \in ts[k].children : Rejected(ts, c)].err
  ELSE ts[k].err

\* The child invocations launched for `targets` (a sequence of
\* <<nodeId, branchId>>): targets naming no node of the flow launch nothing.
Launch(f, origin, targets, data, parent) ==
  LET real == {i \in 1..Len(targets) : HasNode(f, targets[i][1])}
  IN [k \in {NodeKey(origin, targets[i][2], targets[i][1]) : i \in real} |->
        NodeTask(f, k[3], k[2], data, parent)]

LaunchedKeys(f, origin, targets) ==
  {NodeKey(origin, targets[i][2], targets[i][1]) :
     i \in {j \in 1..Len(targets) : HasNode(f, targets[j][1])}}

\* f @@ g, with g's entries added to f.
Merge(f, g) == [k \in DOMAIN f \cup DOMAIN g |-> IF k \in DOMAIN g THEN g[k] ELSE f[k]]

\* ------------------------------------------------------------ executeNode
TypeOf(k) == NodeById(flow, tasks[k].node).type

ConfigOf(k) == NodeById(flow, tasks[k].node).config

IsNodeTask(k, pc) ==
  /\ k \in DOMAIN tasks
  /\ tasks[k].kind = "node"
  /\ tasks[k].pc = pc

SetTask(k, upd) ==
  [tasks EXCEPT ![k] =
     [f \in DOMAIN @ |-> IF f \in DOMAIN upd THEN upd[f] ELSE @[f]]]

\* Lines 212-217: nodeExec?.status === 'completed' on the document found.
AlreadyExecuted(nodes, id) ==
  HasEntry(nodes, id) /\ FirstEntry(nodes, id).status = "completed"

\* Lines 206-218: findOne for the node's entry; an entry that is completed
\* ends the invocation.
FindExisting(k) ==
  /\ IsNodeTask(k, "find")
  /\ LET id == tasks[k].node
         existing == HasEntry(executedNodes, id)
         done == AlreadyExecuted(executedNodes, id)
     IN tasks' = SetTask(k, [existing |-> existing,
                             pc |-> IF done THEN "resolved"
                                    ELSE IF existing THEN "dispatch"
                                    ELSE "push"])
  /\ UNCHANGED <<catalogVars, serviceVars, flow, triggerData, status, branches, executedNodes, resumeAt, runError,
                 sentMessages, orderNotes, customerNotes, now, delayQueue,
                 faults, calls, effects, snapshot>>

\* Lines 222-240: $push of the running entry when findOne found none.
PushRunning(k) ==
  /\ IsNodeTask(k, "push")
  /\ executedNodes' =
       Append(executedNodes, RunningEntry(NodeById(flow, tasks[k].node)))
  /\ tasks' = SetTask(k, [pc |-> "dispatch"])
  /\ UNCHANGED <<catalogVars, serviceVars, flow, triggerData, status, branches, resumeAt, runError, sentMessages,
                 orderNotes, customerNotes, now, delayQueue, faults, calls,
                 effects, snapshot>>

\* executeSendMessage calls message.match: a TypeError when config.message
\* is a truthy non-string.
MessageThrows(config) ==
  /\ "message" \in DOMAIN config
  /\ config.message.t = "num"
  /\ config.message.n # 0

\* The idempotency map of a mock adapter.
StoreOf(type) ==
  CASE type = SEND_MESSAGE -> sentMessages
    [] type = ADD_ORDER_NOTE -> orderNotes
    [] OTHER -> customerNotes

\* this.<map>.has(payload.idempotencyKey)
Cached(type, key) == key \in DOMAIN StoreOf(type)

Invocation(k) ==
  [node |-> tasks[k].node, branch |-> tasks[k].branch,
   data |-> tasks[k].data, origin |-> OriginOf(k)]

\* Seconds, minutes, hours or days in milliseconds (executeTimeDelay).
DelayMs(config) ==
  LET duration == OrDefault(config, "duration", 0)
      unit == OrDefault(config, "unit", "minutes")
  IN CASE unit = "seconds" -> duration * 1000
       [] unit = "minutes" -> duration * 60 * 1000
       [] unit = "hours" -> duration * 60 * 60 * 1000
       [] unit = "days" -> duration * 24 * 60 * 60 * 1000
       [] OTHER -> 0

\* flow.edges.filter(e => e.source === node.id).map(e => e.target)
NextNodeIds(f, id) ==
  LET out == OutEdges(f, id) IN [i \in 1..Len(out) |-> out[i].target]

\* The edge a split follows: the first outgoing edge whose sourceHandle is
\* the result; 0 when there is none.
ResultEdge(f, id, finalResult) ==
  LET out == OutEdges(f, id)
      h == IF finalResult THEN "true" ELSE "false"
      hits == {i \in 1..Len(out) : out[i].sourceHandle = h}
  IN IF hits = {} THEN [found |-> FALSE, target |-> ""]
     ELSE [found |-> TRUE,
           target |-> out[CHOOSE i \in hits : \A j \in hits : i <= j].target]

\* Lines 242-266, an action node: the executor and the has() check of its
\* mock adapter; a cached result is returned at once, otherwise the call
\* waits for the simulated API.
DispatchAction(k) ==
  /\ IsNodeTask(k, "dispatch")
  /\ TypeOf(k) \in ActionTypes
  /\ LET key == IdempotencyKey(executionId, tasks[k].node)
     IN IF TypeOf(k) = SEND_MESSAGE /\ MessageThrows(ConfigOf(k))
        THEN tasks' = SetTask(k, [pc |-> "catch", err |-> "TypeError"])
        ELSE IF Cached(TypeOf(k), key)
        THEN tasks' = SetTask(k, [pc |-> "complete",
                                  result |-> StoreOf(TypeOf(k))[key]])
        ELSE tasks' = SetTask(k, [pc |-> "api", started |-> now])
  /\ calls' = calls \cup {Invocation(k)}
  /\ UNCHANGED <<catalogVars, serviceVars, flow, triggerData, status, branches, executedNodes, resumeAt, runError,
                 sentMessages, orderNotes, customerNotes, now, delayQueue,
                 faults, effects, snapshot>>

\* Lines 246-248: executeTrigger returns its result.
DispatchTrigger(k) ==
  /\ IsNodeTask(k, "dispatch")
  /\ TypeOf(k) = TRIGGER
  /\ tasks' = SetTask(k, [pc |-> "complete",
                          result |-> [triggerData |-> tasks[k].data]])
  /\ calls' = calls \cup {Invocation(k)}
  /\ UNCHANGED <<catalogVars, serviceVars, flow, triggerData, status, branches, executedNodes, resumeAt, runError,
                 sentMessages, orderNotes, customerNotes, now, delayQueue,
                 faults, effects, snapshot>>

\* Lines 264-266: no case for the node type.
DispatchUnknown(k) ==
  /\ IsNodeTask(k, "dispatch")
  /\ TypeOf(k) \notin ActionTypes \cup {TRIGGER, TIME_DELAY, CONDITIONAL_SPLIT}
  /\ tasks' = SetTask(k, [pc |-> "catch", err |-> "Unknown node type"])
  /\ UNCHANGED <<catalogVars, serviceVars, flow, triggerData, status, branches, executedNodes, resumeAt, runError,
                 sentMessages, orderNotes, customerNotes, now, delayQueue,
                 faults, calls, effects, snapshot>>

\* A transient error (adapter or store unavailable) raised inside the try
\* block before the executor has had any effect.
DispatchFault(k) ==
  /\ IsNodeTask(k, "dispatch")
  /\ faults < MaxFaults
  /\ faults' = faults + 1
  /\ tasks' = SetTask(k, [pc |-> "catch", err |-> "transient"])
  /\ UNCHANGED <<catalogVars, serviceVars, flow, triggerData, status, branches, executedNodes, resumeAt, runError,
                 sentMessages, orderNotes, customerNotes, now, delayQueue,
                 calls, effects, snapshot>>

\* External calls performed so far with `key`.
Performed(key) == IF key \in DOMAIN effects THEN effects[key] ELSE 0

\* mockSendWhatsAppMessage / mockAddOrderNote / mockAddCustomerNote after the
\* simulated API delay: build the result from Date.now() and set it in the
\* map. The timer has run, so the clock is past the call's start.
ApiResult(type, key, t) ==
  [id |-> <<IF type = SEND_MESSAGE THEN "msg" ELSE "note", t>>, key |-> key]

ApiDone(k) ==
  /\ IsNodeTask(k, "api")
  /\ LET type == TypeOf(k)
         key == IdempotencyKey(executionId, tasks[k].node)
         t == IF now > tasks[k].started THEN now ELSE tasks[k].started + 1
         result == ApiResult(type, key, t)
         put(m) == [x \in DOMAIN m \cup {key} |-> IF x = key THEN result ELSE m[x]]
     IN /\ now' = t
        /\ sentMessages' = IF type = SEND_MESSAGE THEN put(sentMessages)
                           ELSE sentMessages
        /\ orderNotes' = IF type = ADD_ORDER_NOTE THEN put(orderNotes)
                         ELSE orderNotes
        /\ customerNotes' = IF type = ADD_CUSTOMER_NOTE THEN put(customerNotes)
                            ELSE customerNotes
        /\ effects' = [x \in DOMAIN effects \cup {key} |->
                         IF x = key THEN Performed(key) + 1 ELSE effects[x]]
        /\ tasks' = SetTask(k, [pc |-> "complete", result |-> result])
  /\ UNCHANGED <<catalogVars, serviceVars, flow, triggerData, status, branches, executedNodes, resumeAt, runError,
                 delayQueue, faults, calls, snapshot>>

\* The targets of a node's outgoing edges with the branch each runs in:
\* `${branchId}_${i}` when there are several, the same branch otherwise.
Targets(f, id, branchId) ==
  LET out == OutEdges(f, id)
  IN [i \in 1..Len(out) |->
        <<out[i].target,
          IF Len(out) > 1 THEN ChildBranchId(branchId, i - 1) ELSE branchId>>]

\* Variant of Complete that recurses into the next nodes without having
\* marked the entry completed.
CompleteUnmarked(k) ==
  /\ IsNodeTask(k, "complete")
  /\ LET id == tasks[k].node
         targets == Targets(flow, id, tasks[k].branch)
     IN IF Len(OutEdges(flow, id)) > 1
        THEN tasks' = SetTask(k, [pc |-> "branches"])
        ELSE tasks' = Merge(SetTask(k, [pc |-> "await",
                                        children |->
                                          LaunchedKeys(flow, OriginOf(k), targets)]),
                            Launch(flow, OriginOf(k), targets, tasks[k].data, k))
  /\ UNCHANGED <<catalogVars, serviceVars, flow, triggerData, status, branches, executedNodes, resumeAt, runError, sentMessages,
                 orderNotes, customerNotes, now, delayQueue, faults, calls,
                 effects, snapshot>>

\* Lines 268-298: mark the entry completed; with one outgoing edge at most,
\* recurse at once (lines 300-310).
Complete(k) ==
  /\ IsNodeTask(k, "complete")
  /\ executedNodes' = SetEntry(executedNodes, tasks[k].node,
                               [status |-> "completed",
                                result |-> tasks[k].result])
  /\ LET id == tasks[k].node
         targets == Targets(flow, id, tasks[k].branch)
     IN IF Len(OutEdges(flow, id)) > 1
        THEN tasks' = SetTask(k, [pc |-> "branches"])
        ELSE tasks' = Merge(SetTask(k, [pc |-> "await",
                                        children |->
                                          LaunchedKeys(flow, OriginOf(k), targets)]),
                            Launch(flow, OriginOf(k), targets, tasks[k].data, k))
  /\ UNCHANGED <<catalogVars, serviceVars, flow, triggerData, status, branches, resumeAt, runError, sentMessages,
                 orderNotes, customerNotes, now, delayQueue, faults, calls,
                 effects, snapshot>>

\* Lines 283-310: $push one branch per outgoing edge, then recurse into every
\* target in its branch.
PushBranches(k) ==
  /\ IsNodeTask(k, "branches")
  /\ LET id == tasks[k].node
         out == OutEdges(flow, id)
         targets == Targets(flow, id, tasks[k].branch)
         newBranches == [i \in 1..Len(out) |->
                           Branch(ChildBranchId(tasks[k].branch, i - 1),
                                  "running", out[i].target, <<id>>)]
     IN /\ branches' = branches \o newBranches
        /\ tasks' = Merge(SetTask(k, [pc |-> "await",
                                      children |->
                                        LaunchedKeys(flow, OriginOf(k), targets)]),
                          Launch(flow, OriginOf(k), targets, tasks[k].data, k))
  /\ UNCHANGED <<catalogVars, serviceVars, flow, triggerData, status, executedNodes, resumeAt, runError,
                 sentMessages, orderNotes, customerNotes, now, delayQueue,
                 faults, calls, effects, snapshot>>

\* Lines 312-335: the catch block reads the entry's retryCount. It is entered
\* by an error of this invocation or by the rejection of the awaited
\* Promise.all; the children still running are no longer awaited.
Catch(k) ==
  /\ k \in DOMAIN tasks
  /\ tasks[k].kind = "node"
  /\ tasks[k].pc = "catch" \/ AllRejects(tasks, k)
  /\ LET id == tasks[k].node
         retryCount == IF HasEntry(executedNodes, id)
                       THEN FirstEntry(executedNodes, id).retryCount
                       ELSE 0
     IN tasks' = SetTask(k, [pc |-> IF retryCount < MaxRetries
                                    THEN "catch_inc" ELSE "catch_fail",
                             retryCount |-> retryCount,
                             err |-> ErrorOf(tasks, k),
                             children |-> {}])
  /\ UNCHANGED <<catalogVars, serviceVars, flow, triggerData, status, branches, executedNodes, resumeAt, runError,
                 sentMessages, orderNotes, customerNotes, now, delayQueue,
                 faults, calls, effects, snapshot>>

\* Lines 324-335: after the backoff, $inc retryCount and run the node again.
CatchRetry(k) ==
  /\ IsNodeTask(k, "catch_inc")
  /\ LET id == tasks[k].node
     IN executedNodes' =
          IF HasEntry(executedNodes, id)
          THEN SetEntry(executedNodes, id,
                        [retryCount |-> FirstEntry(executedNodes, id).retryCount + 1])
          ELSE executedNodes
  /\ tasks' = SetTask(k, [pc |-> "find", existing |-> FALSE,
                          result |-> NoResult])
  /\ UNCHANGED <<catalogVars, serviceVars, flow, triggerData, status, branches, resumeAt, runError, sentMessages,
                 orderNotes, customerNotes, now, delayQueue, faults, calls,
                 effects, snapshot>>

\* Lines 337-349: retries exhausted: mark the entry failed and rethrow.
CatchFail(k) ==
  /\ IsNodeTask(k, "catch_fail")
  /\ executedNodes' = SetEntry(executedNodes, tasks[k].node,
                               [status |-> "failed", error |-> tasks[k].err])
  /\ tasks' = SetTask(k, [pc |-> "rejected"])
  /\ UNCHANGED <<catalogVars, serviceVars, flow, triggerData, status, branches, resumeAt, runError, sentMessages,
                 orderNotes, customerNotes, now, delayQueue, faults, calls,
                 effects, snapshot>>

\* Lines 170-173: the filter { 'executedNodes.nodeId': { $ne: node.id } }.
EndMissing(nodes, id) == ~HasEntry(nodes, id)

\* Lines 162-187: the guarded $push of the END entry.
EndInsert(k) ==
  /\ IsNodeTask(k, "end_insert")
  /\ executedNodes' =
       IF EndMissing(executedNodes, tasks[k].node)
       THEN Append(executedNodes, RunningEntry(NodeById(flow, tasks[k].node)))
       ELSE executedNodes
  /\ tasks' = SetTask(k, [pc |-> "end_inc"])
  /\ UNCHANGED <<catalogVars, serviceVars, flow, triggerData, status, branches, resumeAt, runError, sentMessages,
                 orderNotes, customerNotes, now, delayQueue, faults, calls,
                 effects, snapshot>>

\* executeEnd, lines 642-661: expected arrivals are the incoming edges;
\* findOneAndUpdate increments arrivalCount and returns the new document.
ExpectedBranches(f, id) == Len(InEdges(f, id))

EndArrive(k) ==
  /\ IsNodeTask(k, "end_inc")
  /\ LET id == tasks[k].node
         found == HasEntry(executedNodes, id)
         count == IF found THEN FirstEntry(executedNodes, id).arrivalCount + 1
                  ELSE 0
         arrivalCount == IF count = 0 THEN 1 ELSE count
         expectedBranches == ExpectedBranches(flow, id)
     IN /\ executedNodes' =
             IF found THEN SetEntry(executedNodes, id, [arrivalCount |-> count])
             ELSE executedNodes
        /\ tasks' = SetTask(k, [pc |-> IF arrivalCount >= expectedBranches
                                       THEN "end_status" ELSE "end_mark",
                                result |-> [arrivalCount |-> arrivalCount,
                                            expectedBranches |-> expectedBranches]])
        /\ calls' = calls \cup {Invocation(k)}
  /\ UNCHANGED <<catalogVars, serviceVars, flow, triggerData, status, branches, resumeAt, runError, sentMessages,
                 orderNotes, customerNotes, now, delayQueue, faults, effects,
                 snapshot>>

\* executeEnd, lines 663-669: all expected arrivals are in.
EndComplete(k) ==
  /\ IsNodeTask(k, "end_status")
  /\ status' = "completed"
  /\ tasks' = SetTask(k, [pc |-> "end_mark"])
  /\ UNCHANGED <<catalogVars, serviceVars, flow, triggerData, branches, executedNodes, resumeAt, runError,
                 sentMessages, orderNotes, customerNotes, now, delayQueue,
                 faults, calls, effects, snapshot>>

\* Lines 192-203: mark the END entry completed and return.
EndMark(k) ==
  /\ IsNodeTask(k, "end_mark")
  /\ executedNodes' = SetEntry(executedNodes, tasks[k].node,
                               [status |-> "completed",
                                result |-> tasks[k].result])
  /\ tasks' = SetTask(k, [pc |-> "resolved"])
  /\ UNCHANGED <<catalogVars, serviceVars, flow, triggerData, status, branches, resumeAt, runError, sentMessages,
                 orderNotes, customerNotes, now, delayQueue, faults, calls,
                 effects, snapshot>>

\* ------------------------------------------------------- executeTimeDelay
\* Job data travels through Redis as JSON: a field holding undefined is
\* dropped, numbers and strings come back as they were.
Serialize(data) ==
  [f \in {g \in DOMAIN data : data[g].t # "undef"} |-> data[f]]

\* Lines 485-502: save the delay state; the run status is set to delayed.
DispatchDelay(k) ==
  /\ IsNodeTask(k, "dispatch")
  /\ TypeOf(k) = TIME_DELAY
  /\ status' = "delayed"
  /\ resumeAt' = [set |-> TRUE, delayMs |-> DelayMs(ConfigOf(k))]
  /\ tasks' = SetTask(k, [pc |-> "delay_mark"])
  /\ calls' = calls \cup {Invocation(k)}
  /\ UNCHANGED <<catalogVars, serviceVars, flow, triggerData, branches, executedNodes, runError, sentMessages,
                 orderNotes, customerNotes, now, delayQueue, faults, effects,
                 snapshot>>

\* Lines 504-514: the delay node's entry is completed before the job exists.
DelayMark(k) ==
  /\ IsNodeTask(k, "delay_mark")
  /\ executedNodes' = SetEntry(executedNodes, tasks[k].node,
                               [status |-> "completed",
                                result |-> [delayMs |-> DelayMs(ConfigOf(k))]])
  /\ tasks' = SetTask(k, [pc |-> "delay_enqueue"])
  /\ UNCHANGED <<catalogVars, serviceVars, flow, triggerData, status, branches, resumeAt, runError, sentMessages,
                 orderNotes, customerNotes, now, delayQueue, faults, calls,
                 effects, snapshot>>

ResumeJob(k) ==
  [executionId |-> executionId,
   nextNodeIds |-> NextNodeIds(flow, tasks[k].node),
   context |-> Serialize(tasks[k].data),
   branchId |-> tasks[k].branch,
   delay |-> DelayMs(ConfigOf(k)),
   delivered |-> 0]

\* Lines 516-526: delayQueue.add; executeNode then returns (line 260).
DelayEnqueue(k) ==
  /\ IsNodeTask(k, "delay_enqueue")
  /\ delayQueue' = Append(delayQueue, ResumeJob(k))
  /\ tasks' = SetTask(k, [pc |-> "resolved"])
  /\ UNCHANGED <<catalogVars, serviceVars, flow, triggerData, status, branches, executedNodes, resumeAt, runError,
                 sentMessages, orderNotes, customerNotes, now, faults, calls,
                 effects, snapshot>>

\* delayQueue.add rejects (Redis unavailable): the error reaches the catch
\* block of executeNode.
DelayEnqueueFault(k) ==
  /\ IsNodeTask(k, "delay_enqueue")
  /\ faults < MaxFaults
  /\ faults' = faults + 1
  /\ tasks' = SetTask(k, [pc |-> "catch", err |-> "transient"])
  /\ UNCHANGED <<catalogVars, serviceVars, flow, triggerData, status, branches, executedNodes, resumeAt, runError,
                 sentMessages, orderNotes, customerNotes, now, delayQueue,
                 calls, effects, snapshot>>

\* ------------------------------------------------ executeConditionalSplit
\* Variant of DispatchSplit that treats the split as a fan-out: it adds a
\* branch per outgoing edge and recurses into every target.
DispatchSplitAll(k) ==
  /\ IsNodeTask(k, "dispatch")
  /\ TypeOf(k) = CONDITIONAL_SPLIT
  /\ LET id == tasks[k].node
         out == OutEdges(flow, id)
         targets == Targets(flow, id, tasks[k].branch)
     IN /\ executedNodes' = SetEntry(executedNodes, id, [status |-> "completed"])
        /\ branches' =
             branches \o [i \in 1..Len(out) |->
                            Branch(ChildBranchId(tasks[k].branch, i - 1),
                                   "running", out[i].target, <<id>>)]
        /\ tasks' = Merge(SetTask(k, [pc |-> "await",
                                      children |->
                                        LaunchedKeys(flow, OriginOf(k), targets)]),
                          Launch(flow, OriginOf(k), targets, tasks[k].data, k))
  /\ calls' = calls \cup {Invocation(k)}
  /\ UNCHANGED <<catalogVars, serviceVars, flow, triggerData, status, resumeAt, runError, sentMessages,
                 orderNotes, customerNotes, now, delayQueue, faults, effects,
                 snapshot>>

\* Lines 538-629: evaluate, mark the entry completed, and recurse into the
\* target of the matching edge in the same branch; without one, return.
DispatchSplit(k) ==
  /\ IsNodeTask(k, "dispatch")
  /\ TypeOf(k) = CONDITIONAL_SPLIT
  /\ LET id == tasks[k].node
         finalResult == EvalConfig(ConfigOf(k), tasks[k].data)
         resultEdge == ResultEdge(flow, id, finalResult)
         targets == IF resultEdge.found
                    THEN <<<<resultEdge.target, tasks[k].branch>>>>
                    ELSE <<>>
     IN /\ executedNodes' =
             SetEntry(executedNodes, id,
                      [status |-> "completed",
                       result |-> [result |-> finalResult,
                                   groupResults |->
                                     GroupResults(ConfigOf(k), tasks[k].data)]])
        /\ tasks' = Merge(SetTask(k, [pc |-> "await",
                                      children |->
                                        LaunchedKeys(flow, OriginOf(k), targets)]),
                          Launch(flow, OriginOf(k), targets, tasks[k].data, k))
  /\ calls' = calls \cup {Invocation(k)}
  /\ UNCHANGED <<catalogVars, serviceVars, flow, triggerData, status, branches, resumeAt, runError, sentMessages,
                 orderNotes, customerNotes, now, delayQueue, faults, effects,
                 snapshot>>

\* ------------------------------------------------------------ executeFlow
IsHandler(k, kind, pc) ==
  /\ k \in DOMAIN tasks
  /\ tasks[k].kind = kind
  /\ tasks[k].pc = pc

HasTrigger(f) == \E i \in 1..Len(f.nodes) : f.nodes[i].type = TRIGGER

\* flow.nodes.find(n => n.type === NodeType.TRIGGER)
TriggerNode(f) ==
  f.nodes[CHOOSE i \in 1..Len(f.nodes) :
            /\ f.nodes[i].type = TRIGGER
            /\ \A j \in 1..(i - 1) : f.nodes[j].type # TRIGGER]

\* Lines 45-53: find the trigger node and execute from it in branch root.
FlowStart(k) ==
  /\ IsHandler(k, "flow", "start")
  /\ IF HasTrigger(flow)
     THEN LET targets == <<<<TriggerNode(flow).id, "root">>>>
          IN tasks' = Merge(SetTask(k, [pc |-> "await",
                                        children |->
                                          LaunchedKeys(flow, OriginOf(k), targets)]),
                            Launch(flow, OriginOf(k), targets, tasks[k].data, k))
     ELSE tasks' = SetTask(k, [pc |-> "rejected_inner",
                               err |-> "No trigger node found"])
  /\ UNCHANGED <<catalogVars, serviceVars, flow, triggerData, status, branches, executedNodes, resumeAt, runError,
                 sentMessages, orderNotes, customerNotes, now, delayQueue,
                 faults, calls, effects, snapshot>>

\* Lines 55-59: executeNode returned; the document is read and returned.
FlowReturn(k) ==
  /\ k \in DOMAIN tasks
  /\ tasks[k].kind = "flow"
  /\ AllResolves(tasks, k)
  /\ tasks' = SetTask(k, [pc |-> "returned", result |-> [status |-> status]])
  /\ UNCHANGED <<catalogVars, serviceVars, flow, triggerData, status, branches, executedNodes, resumeAt, runError,
                 sentMessages, orderNotes, customerNotes, now, delayQueue,
                 faults, calls, effects, snapshot>>

\* Lines 60-71: executeNode threw; the run is marked failed.
FlowCatch(k) ==
  /\ k \in DOMAIN tasks
  /\ tasks[k].kind = "flow"
  /\ tasks[k].pc = "rejected_inner" \/ AllRejects(tasks, k)
  /\ status' = "failed"
  /\ tasks' = SetTask(k, [pc |-> "returned", result |-> [status |-> "failed"],
                          err |-> ErrorOf(tasks, k), children |-> {}])
  /\ UNCHANGED <<catalogVars, serviceVars, flow, triggerData, branches, executedNodes, resumeAt, runError,
                 sentMessages, orderNotes, customerNotes, now, delayQueue,
                 faults, calls, effects, snapshot>>

\* ------------------------------------------------------ handleDelayResume
JobOrigin(j, d) == "job" \o Index[j + 1] \o "." \o Index[d + 1]

\* No invocation is between two of its steps.
Quiescent ==
  \A k \in DOMAIN tasks :
    \/ tasks[k].pc \in {"resolved", "returned", "rejected"}
    \/ /\ tasks[k].kind = "node"
       /\ tasks[k].pc = "await"
       /\ \A c \in tasks[k].children : tasks[c].pc # "rejected"

\* What a client sees of the run: the record and the external calls.
Record ==
  [status |-> status, branches |-> branches, executedNodes |-> executedNodes,
   effects |-> effects]

\* execution.branches.find(b => b.branchId === branchId)?.path || []
PathOf(bs, id) == IF HasBranch(bs, id) THEN bs[FirstBranch(bs, id)].path ELSE <<>>

\* The queue delivers job j (again): lines 21-38 read the job data, the
\* execution and the flow. @Process('resume-execution') names no
\* concurrency, so the worker handles one job at a time.
Deliver(j) ==
  /\ j \in 1..Len(delayQueue)
  /\ delayQueue[j].delivered < MaxDeliveries
  /\ \A h \in DOMAIN tasks : tasks[h].kind = "resume" => tasks[h].pc = "returned"
  /\ LET job == delayQueue[j]
         k == HandlerKey(JobOrigin(j, job.delivered))
     IN /\ tasks' = Merge(tasks,
                          (k :> [NewTask("resume", "", job.branchId, job.context,
                                         NoKey, "r_branch")
                                 EXCEPT !.job = j,
                                        !.nextNodeIds = job.nextNodeIds,
                                        !.parentPath = PathOf(branches, job.branchId)]))
        /\ delayQueue' = [delayQueue EXCEPT ![j].delivered = @ + 1]
        /\ snapshot' = IF job.delivered >= 1 /\ Quiescent
                       THEN [taken |-> TRUE, job |-> j, record |-> Record]
                       ELSE snapshot
  /\ UNCHANGED <<catalogVars, serviceVars, flow, triggerData, status, branches, executedNodes, resumeAt, runError,
                 sentMessages, orderNotes, customerNotes, now, faults, calls,
                 effects>>

\* The targets of a resume: one child branch per next node when there are
\* several, the job's branch otherwise.
ResumeTargets(k) ==
  LET ids == tasks[k].nextNodeIds
  IN [i \in 1..Len(ids) |->
        <<ids[i],
          IF Len(ids) > 1 THEN ChildBranchId(tasks[k].branch, i - 1)
          ELSE tasks[k].branch>>]

\* Lines 65-116 after the status handling: with several next nodes the
\* parent branch is completed first; with one, continueNode at once.
Continue(k) ==
  IF Len(tasks[k].nextNodeIds) > 1
  THEN SetTask(k, [pc |-> "r_parent"])
  ELSE Merge(SetTask(k, [pc |-> "await",
                         children |->
                           LaunchedKeys(flow, OriginOf(k), ResumeTargets(k))]),
             Launch(flow, OriginOf(k), ResumeTargets(k), tasks[k].data, k))

\* Lines 40-47: the job's branch is set to running.
ResumeBranch(k) ==
  /\ IsHandler(k, "resume", "r_branch")
  /\ branches' = SetBranchStatus(branches, tasks[k].branch, "running")
  /\ tasks' = SetTask(k, [pc |-> "r_check"])
  /\ UNCHANGED <<catalogVars, serviceVars, flow, triggerData, status, executedNodes, resumeAt, runError, sentMessages,
                 orderNotes, customerNotes, now, delayQueue, faults, calls,
                 effects, snapshot>>

\* Lines 49-53: re-read the run; is any branch still delayed?
ResumeCheck(k) ==
  /\ IsHandler(k, "resume", "r_check")
  /\ LET hasDelayedBranches ==
           \E i \in 1..Len(branches) : branches[i].status = "delayed"
     IN tasks' = IF hasDelayedBranches THEN Continue(k)
                 ELSE SetTask(k, [pc |-> "r_status"])
  /\ UNCHANGED <<catalogVars, serviceVars, flow, triggerData, status, branches, executedNodes, resumeAt, runError,
                 sentMessages, orderNotes, customerNotes, now, delayQueue,
                 faults, calls, effects, snapshot>>

\* Lines 53-62: no branch is delayed: the run is running again.
ResumeStatus(k) ==
  /\ IsHandler(k, "resume", "r_status")
  /\ status' = "running"
  /\ resumeAt' = [set |-> FALSE, delayMs |-> 0]
  /\ tasks' = Continue(k)
  /\ UNCHANGED <<catalogVars, serviceVars, flow, triggerData, branches, executedNodes, runError, sentMessages,
                 orderNotes, customerNotes, now, delayQueue, faults, calls,
                 effects, snapshot>>

\* Lines 82-86: the parent branch has split into children.
ResumeParent(k) ==
  /\ IsHandler(k, "resume", "r_parent")
  /\ branches' = SetBranchStatus(branches, tasks[k].branch, "completed")
  /\ tasks' = SetTask(k, [pc |-> "r_push"])
  /\ UNCHANGED <<catalogVars, serviceVars, flow, triggerData, status, executedNodes, resumeAt, runError, sentMessages,
                 orderNotes, customerNotes, now, delayQueue, faults, calls,
                 effects, snapshot>>

\* Lines 74-104: $push the child branches (with the parent's path as read at
\* the start) and continue every next node in its branch.
ResumePush(k) ==
  /\ IsHandler(k, "resume", "r_push")
  /\ LET ids == tasks[k].nextNodeIds
         newBranches == [i \in 1..Len(ids) |->
                           Branch(ChildBranchId(tasks[k].branch, i - 1),
                                  "running", ids[i], tasks[k].parentPath)]
     IN /\ branches' = branches \o newBranches
        /\ tasks' = Merge(SetTask(k, [pc |-> "await",
                                      children |->
                                        LaunchedKeys(flow, OriginOf(k),
                                                     ResumeTargets(k))]),
                          Launch(flow, OriginOf(k), ResumeTargets(k),
                                 tasks[k].data, k))
  /\ UNCHANGED <<catalogVars, serviceVars, flow, triggerData, status, executedNodes, resumeAt, runError, sentMessages,
                 orderNotes, customerNotes, now, delayQueue, faults, calls,
                 effects, snapshot>>

\* Line 118: every continueNode returned.
ResumeDone(k) ==
  /\ k \in DOMAIN tasks
  /\ tasks[k].kind = "resume"
  /\ AllResolves(tasks, k)
  /\ tasks' = SetTask(k, [pc |-> "returned"])
  /\ UNCHANGED <<catalogVars, serviceVars, flow, triggerData, status, branches, executedNodes, resumeAt, runError,
                 sentMessages, orderNotes, customerNotes, now, delayQueue,
                 faults, calls, effects, snapshot>>

\* Lines 119-135: a continueNode threw; the run is read for its failed nodes.
ResumeCatch(k) ==
  /\ k \in DOMAIN tasks
  /\ tasks[k].kind = "resume"
  /\ AllRejects(tasks, k)
  /\ tasks' = SetTask(k, [pc |-> "r_fail", err |-> ErrorOf(tasks, k),
                          children |-> {},
                          result |->
                            [failedNodes |->
                               SelectSeq(executedNodes,
                                         LAMBDA n : n.status = "failed")]])
  /\ UNCHANGED <<catalogVars, serviceVars, flow, triggerData, status, branches, executedNodes, resumeAt, runError,
                 sentMessages, orderNotes, customerNotes, now, delayQueue,
                 faults, calls, effects, snapshot>>

\* Lines 137-152: the run is marked failed unless it already is.
ResumeFail(k) ==
  /\ IsHandler(k, "resume", "r_fail")
  /\ IF status # "failed"
     THEN /\ status' = "failed"
          /\ runError' = [error |-> "Failed to resume after delay",
                          lastError |-> tasks[k].err,
                          failedNodes |-> tasks[k].result.failedNodes]
     ELSE UNCHANGED <<status, runError>>
  /\ tasks' = SetTask(k, [pc |-> "returned"])
  /\ UNCHANGED <<catalogVars, serviceVars, flow, triggerData, branches, executedNodes, resumeAt, sentMessages,
                 orderNotes, customerNotes, now, delayQueue, faults, calls,
                 effects, snapshot>>

\* --------------------------------------------------------- retryExecution
\* The _ids of the executions collection.
ExecutionIds == {executionId}

\* executionModel.findById(id) finds a document of the executions collection.
ExecutionFound(id) == id \in ExecutionIds

HasFailed(nodes) == \E i \in 1..Len(nodes) : nodes[i].status = "failed"

\* execution.executedNodes.find(n => n.status === 'failed')
FirstFailed(nodes) ==
  nodes[CHOOSE i \in 1..Len(nodes) :
          /\ nodes[i].status = "failed"
          /\ \A j \in 1..(i - 1) : nodes[j].status # "failed"]

RetryKey == HandlerKey("retry")

RetryPc == IF RetryKey \in DOMAIN tasks THEN tasks[RetryKey].pc ELSE "new"

\* retryExecution(executionId), one step per call of the action. Lines 87-103
\* read the execution, look the flow up by execution.flowId in the executions
\* collection (line 94) and pick the first failed node; lines 107-123 reset
\* that entry and the run status; lines 125-147 execute the node in branch
\* root with the trigger data and mark the run failed if that throws.
\* The client retries a run that shows a failed node, once.
RetryExecution ==
  /\ \/ RetryPc = "new" /\ HasFailed(executedNodes)
     \/ RetryPc \in {"retry_reset", "retry_status"}
     \/ RetryPc = "await" /\ AllResolves(tasks, RetryKey)
     \/ RetryPc = "await" /\ AllRejects(tasks, RetryKey)
  /\ CASE RetryPc = "new" ->
            /\ tasks' =
                 Merge(tasks,
                       (RetryKey :>
                          IF ~ExecutionFound(flowId)
                          THEN [NewTask("retry", "", "root", triggerData, NoKey,
                                        "rejected")
                                EXCEPT !.err = "Flow not found"]
                          ELSE NewTask("retry", FirstFailed(executedNodes).nodeId,
                                       "root", triggerData, NoKey, "retry_reset")))
            /\ UNCHANGED <<status, executedNodes>>
         [] RetryPc = "retry_reset" ->
            /\ executedNodes' = SetEntry(executedNodes, tasks[RetryKey].node,
                                         [status |-> "running", error |-> None,
                                          retryCount |-> 0])
            /\ tasks' = SetTask(RetryKey, [pc |-> "retry_status"])
            /\ UNCHANGED status
         [] RetryPc = "retry_status" ->
            /\ status' = "running"
            /\ LET targets == <<<<tasks[RetryKey].node, "root">>>>
               IN tasks' =
                    IF HasNode(flow, tasks[RetryKey].node)
                    THEN Merge(SetTask(RetryKey,
                                       [pc |-> "await",
                                        children |->
                                          LaunchedKeys(flow, "retry", targets)]),
                               Launch(flow, "retry", targets,
                                      tasks[RetryKey].data, RetryKey))
                    ELSE SetTask(RetryKey, [pc |-> "rejected",
                                            err |-> "Node not found in flow"])
            /\ UNCHANGED executedNodes
         [] OTHER ->
            /\ status' = IF AllRejects(tasks, RetryKey) THEN "failed" ELSE status
            /\ tasks' = SetTask(RetryKey, [pc |-> "returned", children |-> {}])
            /\ UNCHANGED executedNodes
  /\ UNCHANGED <<catalogVars, serviceVars, flow, triggerData, branches, resumeAt, runError, sentMessages,
                 orderNotes, customerNotes, now, delayQueue, faults, calls,
                 effects, snapshot>>

\* ------------------------------------------------------ FlowsService.update
\* update(id, dto): findByIdAndUpdate stores the dto without validating it.
\* The client repairs the broken flow's message node once the run has come
\* to rest, before it retries the run.
UpdateFlow ==
  /\ flow = BrokenMessageFlow
  /\ Quiescent
  /\ HandlerKey("retry") \notin DOMAIN tasks
  /\ flow' = RepairedMessageFlow
  /\ UNCHANGED <<catalogVars, serviceVars, triggerData, status, branches, executedNodes, resumeAt,
                 runError, sentMessages, orderNotes, customerNotes, now,
                 delayQueue, tasks, faults, calls, effects, snapshot>>

\* ------------------------------------------------------ MockServicesService
\* The three adapters of MockServicesService.
Adapters == {"sendWhatsAppMessage", "addOrderNote", "addCustomerNote"}

\* The idempotencyKey arguments tried: "" stands for a call without one.
RequestKeys == {"", "k1"}

\* Math.random().toString(36).substr(2, 9), drawn from two values.
RandomSuffixes == {"r1", "r2"}

\* idempotencyKey && map.has(idempotencyKey)
HasKey(map, key) == key # "" /\ key \in DOMAIN map

IdPrefix(adapter) == IF adapter = "sendWhatsAppMessage" THEN "msg" ELSE "note"

\* The record an adapter builds: id from Date.now() and Math.random().
NewRecord(adapter, t, r) ==
  [id |-> <<IdPrefix(adapter), t, r>>, timestamp |-> t]

\* Date.now() when a timer started at `started` has run.
AfterTimer(started) == IF now > started THEN now ELSE started + 1

\* Lines 40-50, 76-85, 110-119: a client calls adapter a; a key the
\* idempotency map has returns the stored record at once, otherwise the
\* call waits for the simulated API. `after` lists the calls that had
\* returned when this one was made.
AdapterCall(a, key) ==
  /\ Len(requests) < MaxCalls
  /\ requests' =
       Append(requests,
              [adapter |-> a, key |-> key, started |-> now, stored |-> FALSE,
               after |-> {i \in 1..Len(requests) : requests[i].pc = "returned"},
               pc |-> IF HasKey(idempotency[a], key) THEN "returned" ELSE "api",
               result |-> IF HasKey(idempotency[a], key)
                          THEN idempotency[a][key] ELSE NoResult])
  /\ UNCHANGED <<idempotency, storage, engineVars, catalogVars>>

\* Lines 52-72, 87-106, 121-134: after the simulated API delay the record
\* is built, stored under its id, set in the idempotency map when the call
\* has a key, and returned.
AdapterStore(i, r) ==
  /\ i \in 1..Len(requests)
  /\ requests[i].pc = "api"
  /\ LET a == requests[i].adapter
         t == AfterTimer(requests[i].started)
         rec == NewRecord(a, t, r)
     IN /\ now' = t
        /\ storage' = [storage EXCEPT ![a] = Merge(@, (rec.id :> rec))]
        /\ idempotency' =
             IF requests[i].key # ""
             THEN [idempotency EXCEPT ![a] = Merge(@, (requests[i].key :> rec))]
             ELSE idempotency
        /\ requests' = [requests EXCEPT ![i].pc = "returned",
                                        ![i].result = rec,
                                        ![i].stored = TRUE]
  /\ UNCHANGED <<catalogVars, flow, triggerData, status, branches, executedNodes,
                 resumeAt, runError, sentMessages, orderNotes, customerNotes,
                 delayQueue, tasks, faults, calls, effects, snapshot>>

\* new MockServicesService(): empty maps.
ServiceInit ==
  /\ idempotency = [a \in Adapters |-> <<>>]
  /\ storage = [a \in Adapters |-> <<>>]
  /\ requests = <<>>

\* --------------------------------------------------- FlowValidatorService
\* A flow document of the flows collection, or the object validateData
\* builds from its dto. triggerType is None when the dto has none.
FlowDoc(triggerType, isActive, nodes, edges) ==
  [triggerType |-> triggerType, isActive |-> isActive, nodes |-> nodes,
   edges |-> edges]

\* edges.filter(e => e.source === id), in order.
Outgoing(edges, id) == SelectSeq(edges, LAMBDA e : e.source = id)

\* Step 3, lines 36-44: one error per edge end that names no node.
RECURSIVE DanglingErrors(_, _)
DanglingErrors(edges, nodeIds) ==
  IF edges = <<>> THEN <<>>
  ELSE (IF Head(edges).source \in nodeIds THEN <<>>
        ELSE <<"non-existent source node">>)
       \o (IF Head(edges).target \in nodeIds THEN <<>>
           ELSE <<"non-existent target node">>)
       \o DanglingErrors(Tail(edges), nodeIds)

\* getReachableNodes, lines 139-146: the forEach over the outgoing edges of
\* the node taken from the queue.
RECURSIVE VisitOutgoing(_, _, _)
VisitOutgoing(outgoing, reachable, queue) ==
  IF outgoing = <<>> THEN [reachable |-> reachable, queue |-> queue]
  ELSE IF Head(outgoing).target \in reachable
       THEN VisitOutgoing(Tail(outgoing), reachable, queue)
       ELSE VisitOutgoing(Tail(outgoing),
                          reachable \cup {Head(outgoing).target},
                          Append(queue, Head(outgoing).target))

\* getReachableNodes, lines 137-149: the while loop over the queue.
RECURSIVE DrainQueue(_, _, _)
DrainQueue(queue, reachable, edges) ==
  IF queue = <<>> THEN reachable
  ELSE LET step == VisitOutgoing(Outgoing(edges, Head(queue)), reachable,
                                 Tail(queue))
       IN DrainQueue(step.queue, step.reachable, edges)

GetReachableNodes(startNodeId, edges) ==
  DrainQueue(<<startNodeId>>, {startNodeId}, edges)

\* hasCycles, lines 156-175: dfs(nodeId) with the visited set and the
\* recursion stack it shares between calls; DfsEdges is its for loop.
RECURSIVE Dfs(_, _, _, _)
RECURSIVE DfsEdges(_, _, _, _)
Dfs(nodeId, edges, visited, recursionStack) ==
  DfsEdges(Outgoing(edges, nodeId), edges, visited \cup {nodeId},
           recursionStack \cup {nodeId})

DfsEdges(outgoing, edges, visited, recursionStack) ==
  IF outgoing = <<>> THEN [cycle |-> FALSE, visited |-> visited]
  ELSE LET target == Head(outgoing).target
       IN IF target \notin visited
          THEN LET below == Dfs(target, edges, visited, recursionStack)
               IN IF below.cycle THEN below
                  ELSE DfsEdges(Tail(outgoing), edges, below.visited,
                                recursionStack)
          ELSE IF target \in recursionStack
          THEN [cycle |-> TRUE, visited |-> visited]
          ELSE DfsEdges(Tail(outgoing), edges, visited, recursionStack)

HasCycles(startNodeId, edges) == Dfs(startNodeId, edges, {}, {}).cycle

\* validate, lines 51-125: the checks made once the flow has one TRIGGER,
\* one END and no dangling edge.
GraphErrors(f, triggerNode, endNode) ==
  LET incomingToTrigger == SelectSeq(f.edges, LAMBDA e : e.target = triggerNode.id)
      outgoingFromEnd == Outgoing(f.edges, endNode.id)
      unreachableNodes ==
        SelectSeq(f.nodes,
                  LAMBDA n : n.id \notin GetReachableNodes(triggerNode.id, f.edges))
      leafNodes ==
        SelectSeq(f.nodes,
                  LAMBDA n : /\ n.type \notin {END, TRIGGER}
                             /\ Outgoing(f.edges, n.id) = <<>>)
      hasActionNodes ==
        \E i \in 1..Len(f.nodes) : f.nodes[i].type \notin {TRIGGER, END}
      incomingToEnd == SelectSeq(f.edges, LAMBDA e : e.target = endNode.id)
  IN (IF Len(incomingToTrigger) > 0
      THEN <<"TRIGGER node cannot have incoming edges">> ELSE <<>>)
     \o (IF Len(outgoingFromEnd) > 0
         THEN <<"END node cannot have outgoing edges">> ELSE <<>>)
     \o (IF Len(f.nodes) > 1
         THEN (IF Len(unreachableNodes) > 0
               THEN <<"Unreachable nodes from TRIGGER">> ELSE <<>>)
              \o (IF HasCycles(triggerNode.id, f.edges)
                  THEN <<"Flow contains cycles">> ELSE <<>>)
         ELSE <<>>)
     \o (IF Len(f.nodes) > 2
         THEN [i \in 1..Len(leafNodes) |-> "Node has no outgoing edges"]
              \o (IF hasActionNodes /\ Len(incomingToEnd) = 0
                  THEN <<"END node must have at least one incoming edge">>
                  ELSE <<>>)
         ELSE <<>>)

\* validate(flow), lines 11-131: the ValidationResult.
Validate(f) ==
  LET triggerNodes == SelectSeq(f.nodes, LAMBDA n : n.type = TRIGGER)
      endNodes == SelectSeq(f.nodes, LAMBDA n : n.type = END)
      first ==
        (IF f.triggerType = None THEN <<"Flow must have a trigger type">>
         ELSE <<>>)
        \o (IF Len(triggerNodes) = 0
            THEN <<"Flow must have exactly one TRIGGER node">>
            ELSE IF Len(triggerNodes) > 1
            THEN <<"Flow can only have one TRIGGER node">> ELSE <<>>)
        \o (IF Len(endNodes) = 0
            THEN <<"Flow must have exactly one END node">>
            ELSE IF Len(endNodes) > 1
            THEN <<"Flow can only have one END node">> ELSE <<>>)
        \o DanglingErrors(f.edges, NodeIds(f))
      errors == IF Len(first) > 0 THEN first
                ELSE GraphErrors(f, triggerNodes[1], endNodes[1])
  IN [valid |-> Len(errors) = 0, errors |-> errors]

\* The flows handed to the validator: node lists with and without the
\* system nodes, and every choice of at most MaxEdges edges between the
\* listed nodes, to or from a node that is not listed included.
PlainNode(id, type) == FlowNode(id, type, EmptyConfig)

CandidateNodes ==
  {<<PlainNode("trigger", TRIGGER)>>,
   <<PlainNode("trigger", TRIGGER), PlainNode("end", END)>>,
   <<PlainNode("a", SEND_MESSAGE), PlainNode("end", END)>>,
   <<PlainNode("trigger", TRIGGER), PlainNode("a", SEND_MESSAGE)>>,
   <<PlainNode("trigger", TRIGGER), PlainNode("a", SEND_MESSAGE),
     PlainNode("end", END)>>,
   <<PlainNode("trigger", TRIGGER), PlainNode("t2", TRIGGER),
     PlainNode("end", END)>>,
   <<PlainNode("trigger", TRIGGER), PlainNode("end", END),
     PlainNode("e2", END)>>,
   <<PlainNode("trigger", TRIGGER), PlainNode("a", SEND_MESSAGE),
     PlainNode("b", ADD_ORDER_NOTE), PlainNode("end", END)>>}

CandidatePairs(nodes) ==
  LET ids == {nodes[i].id : i \in 1..Len(nodes)}
  IN (ids \X ids) \cup {<<nodes[1].id, "ghost">>, <<"ghost", nodes[1].id>>}

RECURSIVE EdgeList(_)
EdgeList(pairs) ==
  IF pairs = {} THEN <<>>
  ELSE LET p == CHOOSE q \in pairs : TRUE
       IN <<FlowEdge(p[1] \o ">" \o p[2], p[1], p[2], None)>>
          \o EdgeList(pairs \ {p})

NEW_ORDER == "NEW_ORDER"
ABANDONED_CHECKOUT == "ABANDONED_CHECKOUT"

\* The candidate flows over the node lists given.
Candidates(nodeLists) ==
  UNION {{FlowDoc(t, FALSE, nodes, EdgeList(pairs)) :
            t \in {None, NEW_ORDER},
            pairs \in {ps \in SUBSET CandidatePairs(nodes) :
                         Cardinality(ps) <= MaxEdges}} :
           nodes \in nodeLists}

\* No ValidationResult yet.
NotValidated == [valid |-> FALSE, errors |-> <<>>]

\* FlowsService.validateData: the validator applied to the candidate.
ValidateData ==
  /\ validation = NotValidated
  /\ validation' = Validate(candidate)
  /\ UNCHANGED <<flowDocs, executionDocs, http, candidate, engineVars,
                 serviceVars>>

\* ------------------------------------------- FlowsService, FlowsController
\* The _ids of the flows collection, and one that names no document.
FlowDocIds == {"f1", "f2", "f3"}

MissingId == "f9"

\* trigger -> end, and the graph FlowsService.create saves: the two system
\* nodes without an edge.
ConnectedNodes == <<PlainNode("trigger", TRIGGER), PlainNode("end", END)>>

ConnectedEdges == <<FlowEdge("e1", "trigger", "end", None)>>

\* An API request: its operation, its arguments, what it read and where
\* it stands.
Request(op, id, triggerType) ==
  [op |-> op, id |-> id, triggerType |-> triggerType, pc |-> "returned",
   read |-> None, seen |-> <<>>, activeFlows |-> <<>>, created |-> {},
   wrote |-> FALSE, err |-> None, response |-> None]

\* validationResult.valid is false: activate throws (line 93).
Refuses(validationResult) == ~validationResult.valid

\* findByIdAndUpdate(id, dto, { new: true }): the dto's fields replace the
\* document's; nothing is written when no document has the id.
Update(docs, id, dto) ==
  IF id \in DOMAIN docs
  THEN [docs EXCEPT ![id] =
          [f \in DOMAIN @ |-> IF f \in DOMAIN dto THEN dto[f] ELSE @[f]]]
  ELSE docs

\* activate, lines 90-98: validate(id) reads the flow (NotFound when there
\* is none) and validates it; an invalid flow ends the request with
\* BadRequest.
ActivateValidate(id) ==
  /\ Len(http) < MaxHttp
  /\ http' =
       Append(http,
              IF id \notin DOMAIN flowDocs
              THEN [Request("activate", id, None) EXCEPT
                      !.pc = "rejected", !.err = "NotFound"]
              ELSE IF Refuses(Validate(flowDocs[id]))
              THEN [Request("activate", id, None) EXCEPT
                      !.pc = "rejected", !.err = "BadRequest",
                      !.read = flowDocs[id]]
              ELSE [Request("activate", id, None) EXCEPT
                      !.pc = "update", !.read = flowDocs[id]])
  /\ UNCHANGED <<flowDocs, executionDocs, candidate, validation, engineVars,
                 serviceVars>>

\* activate, line 100: update(id, { isActive: true }).
ActivateUpdate(i) ==
  /\ i \in 1..Len(http)
  /\ http[i].op = "activate"
  /\ http[i].pc = "update"
  /\ flowDocs' = Update(flowDocs, http[i].id, [isActive |-> TRUE])
  /\ http' = [http EXCEPT ![i].pc = "returned", ![i].wrote = TRUE]
  /\ UNCHANGED <<executionDocs, candidate, validation, engineVars,
                 serviceVars>>

\* deactivate, lines 103-105.
Deactivate(id) ==
  /\ Len(http) < MaxHttp
  /\ id \in DOMAIN flowDocs
  /\ flowDocs' = Update(flowDocs, id, [isActive |-> FALSE])
  /\ http' = Append(http, [Request("deactivate", id, None) EXCEPT
                             !.wrote = TRUE])
  /\ UNCHANGED <<executionDocs, candidate, validation, engineVars,
                 serviceVars>>

\* The bodies of PATCH /flows/:id tried: the editor saves the graph without
\* its edges, or with the edge trigger -> end.
PatchDtos == {[edges |-> <<>>], [edges |-> ConnectedEdges]}

\* FlowsController.update: the dto is stored without validation.
Patch(id, dto) ==
  /\ Len(http) < MaxHttp
  /\ id \in DOMAIN flowDocs
  /\ flowDocs' = Update(flowDocs, id, dto)
  /\ http' = Append(http, [Request("update", id, None) EXCEPT
                             !.wrote = TRUE])
  /\ UNCHANGED <<executionDocs, candidate, validation, engineVars,
                 serviceVars>>

\* flowModel.find({ triggerType, isActive: true }): the _ids of the
\* matching documents.
FindActiveByTriggerType(docs, triggerType) ==
  {id \in DOMAIN docs :
     docs[id].triggerType = triggerType /\ docs[id].isActive = TRUE}

\* The _ids in the order the query returns them.
RECURSIVE IdList(_)
IdList(ids) ==
  IF ids = {} THEN <<>>
  ELSE LET id == CHOOSE x \in ids : TRUE IN <<id>> \o IdList(ids \ {id})

TriggerTypes == {NEW_ORDER, ABANDONED_CHECKOUT}

\* fireTrigger, lines 363-376: the query; without a match the response is
\* sent at once, otherwise executeFlow is called for every flow found.
FireTrigger(triggerType) ==
  /\ Len(http) < MaxHttp
  /\ LET activeFlows == IdList(FindActiveByTriggerType(flowDocs, triggerType))
     IN http' =
          Append(http,
                 IF Len(activeFlows) = 0
                 THEN [Request("fire", None, triggerType) EXCEPT
                         !.seen = flowDocs,
                         !.response = [flowsTriggered |-> 0,
                                       executions |-> <<>>]]
                 ELSE [Request("fire", None, triggerType) EXCEPT
                         !.pc = "executing", !.seen = flowDocs,
                         !.activeFlows = activeFlows])
  /\ UNCHANGED <<flowDocs, executionDocs, candidate, validation, engineVars,
                 serviceVars>>

\* executeFlow lines 26-41 for the n-th flow found: the execution document
\* is created. The traversal that follows writes to that document only.
ExecuteFlowCreate(i, n) ==
  /\ i \in 1..Len(http)
  /\ http[i].op = "fire"
  /\ http[i].pc = "executing"
  /\ n \in 1..Len(http[i].activeFlows)
  /\ n \notin http[i].created
  /\ executionDocs' =
       Append(executionDocs,
              [flowId |-> http[i].activeFlows[n],
               triggerType |-> http[i].seen[http[i].activeFlows[n]].triggerType,
               status |-> "running", request |-> i, position |-> n])
  /\ http' = [http EXCEPT ![i].created = @ \cup {n}]
  /\ UNCHANGED <<flowDocs, candidate, validation, engineVars, serviceVars>>

\* The execution executeFlow returned for the n-th flow of request i.
ExecutionOf(i, n) ==
  CHOOSE e \in 1..Len(executionDocs) :
    executionDocs[e].request = i /\ executionDocs[e].position = n

\* fireTrigger, lines 379-389: every executeFlow has returned.
FireReturn(i) ==
  /\ i \in 1..Len(http)
  /\ http[i].op = "fire"
  /\ http[i].pc = "executing"
  /\ http[i].created = 1..Len(http[i].activeFlows)
  /\ http' =
       [http EXCEPT
          ![i].pc = "returned",
          ![i].response =
            [flowsTriggered |-> Len(http[i].activeFlows),
             executions |->
               [n \in 1..Len(http[i].activeFlows) |->
                  [executionId |-> ExecutionOf(i, n),
                   flowId |-> executionDocs[ExecutionOf(i, n)].flowId]]]]
  /\ UNCHANGED <<flowDocs, executionDocs, candidate, validation, engineVars,
                 serviceVars>>

\* The catalogue as the engine's run finds it: the flow it executes and
\* its own execution document; no API request is in progress.
CatalogOfRun ==
  /\ flowDocs = (flowId :> FlowDoc(NEW_ORDER, FALSE, flow.nodes, flow.edges))
  /\ executionDocs = <<[flowId |-> flowId, triggerType |-> NEW_ORDER,
                        status |-> "running", request |-> 0, position |-> 0]>>
  /\ http = <<>>
  /\ candidate = FlowDoc(NEW_ORDER, FALSE, flow.nodes, flow.edges)
  /\ validation = NotValidated

\* ---------------------------------------------------------- specification
\* The runs checked: every flow with the first payload, and the flows with a
\* conditional split with every payload.
Scenarios ==
  {sc \in FlowNames \X Payloads :
     sc[1] \in {"demo", "splitNoFalse"} \/ sc[2] = [order_total |-> Num(75)]}

\* executeFlow lines 26-41: the execution document as created for flow f
\* and `payload`, with executeFlow about to look for the trigger.
CreatedFor(f, payload) ==
  /\ flow = f
  /\ triggerData = payload
  /\ tasks = (HandlerKey("flow") :>
                NewTask("flow", "", "", payload, NoKey, "start"))
  /\ status = "running"
  /\ branches = <<Branch("root", "running", "trigger", <<>>)>>
  /\ executedNodes = <<>>
  /\ resumeAt = [set |-> FALSE, delayMs |-> 0]
  /\ runError = [error |-> None, lastError |-> None, failedNodes |-> <<>>]
  /\ sentMessages = <<>>
  /\ orderNotes = <<>>
  /\ customerNotes = <<>>
  /\ now = 0
  /\ delayQueue = <<>>
  /\ faults = 0
  /\ calls = {}
  /\ effects = <<>>
  /\ snapshot = [taken |-> FALSE, job |-> 0, record |-> <<>>]

Created(name, payload) == CreatedFor(FlowNamed(name), payload)

Init ==
  /\ \E sc \in Scenarios : Created(sc[1], sc[2])
  /\ ServiceInit
  /\ CatalogOfRun

Next ==
  \/ \E k \in DOMAIN tasks : FindExisting(k)
  \/ \E k \in DOMAIN tasks : PushRunning(k)
  \/ \E k \in DOMAIN tasks : DispatchAction(k)
  \/ \E k \in DOMAIN tasks : DispatchTrigger(k)
  \/ \E k \in DOMAIN tasks : DispatchUnknown(k)
  \/ \E k \in DOMAIN tasks : DispatchFault(k)
  \/ \E k \in DOMAIN tasks : ApiDone(k)
  \/ \E k \in DOMAIN tasks : Complete(k)
  \/ \E k \in DOMAIN tasks : PushBranches(k)
  \/ \E k \in DOMAIN tasks : Catch(k)
  \/ \E k \in DOMAIN tasks : CatchRetry(k)
  \/ \E k \in DOMAIN tasks : CatchFail(k)
  \/ \E k \in DOMAIN tasks : EndInsert(k)
  \/ \E k \in DOMAIN tasks : EndArrive(k)
  \/ \E k \in DOMAIN tasks : EndComplete(k)
  \/ \E k \in DOMAIN tasks : EndMark(k)
  \/ \E k \in DOMAIN tasks : DispatchDelay(k)
  \/ \E k \in DOMAIN tasks : DelayMark(k)
  \/ \E k \in DOMAIN tasks : DelayEnqueue(k)
  \/ \E k \in DOMAIN tasks : DelayEnqueueFault(k)
  \/ \E k \in DOMAIN tasks : DispatchSplit(k)
  \/ \E k \in DOMAIN tasks : FlowStart(k)
  \/ \E k \in DOMAIN tasks : FlowReturn(k)
  \/ \E k \in DOMAIN tasks : FlowCatch(k)
  \/ \E k \in DOMAIN tasks : ResumeBranch(k)
  \/ \E k \in DOMAIN tasks : ResumeCheck(k)
  \/ \E k \in DOMAIN tasks : ResumeStatus(k)
  \/ \E k \in DOMAIN tasks : ResumeParent(k)
  \/ \E k \in DOMAIN tasks : ResumePush(k)
  \/ \E k \in DOMAIN tasks : ResumeDone(k)
  \/ \E k \in DOMAIN tasks : ResumeCatch(k)
  \/ \E k \in DOMAIN tasks : ResumeFail(k)
  \/ \E j \in 1..Len(delayQueue) : Deliver(j)
  \/ RetryExecution
  \/ UpdateFlow

vars == <<engineVars, serviceVars, catalogVars>>

Spec == Init /\ [][Next]_vars

\* MockServicesService called by clients of its own.
AdapterInit ==
  /\ Created("linear", [order_total |-> Num(75)])
  /\ ServiceInit
  /\ CatalogOfRun

AdapterNext ==
  \/ \E a \in Adapters, key \in RequestKeys : AdapterCall(a, key)
  \/ \E i \in 1..Len(requests), r \in RandomSuffixes : AdapterStore(i, r)

AdapterSpec == AdapterInit /\ [][AdapterNext]_vars

\* FlowsService and fireTrigger called by API clients on three stored
\* flows: f1 of either trigger type, active or not, with either graph; f2
\* a NEW_ORDER flow, active or not; f3 an active ABANDONED_CHECKOUT flow.
CatalogInit ==
  /\ Created("direct", [order_total |-> Num(75)])
  /\ ServiceInit
  /\ \E t \in TriggerTypes, act \in [{"f1", "f2"} -> BOOLEAN],
        edges \in {<<>>, ConnectedEdges} :
       flowDocs =
         [id \in FlowDocIds |->
            CASE id = "f1" -> FlowDoc(t, act[id], ConnectedNodes, edges)
              [] id = "f2" -> FlowDoc(NEW_ORDER, act[id], ConnectedNodes,
                                      ConnectedEdges)
              [] OTHER -> FlowDoc(ABANDONED_CHECKOUT, TRUE, ConnectedNodes,
                                  ConnectedEdges)]
  /\ executionDocs = <<>>
  /\ http = <<>>
  /\ candidate = FlowDoc(NEW_ORDER, FALSE, ConnectedNodes, ConnectedEdges)
  /\ validation = NotValidated

CatalogNext ==
  \/ \E id \in FlowDocIds \cup {MissingId} : ActivateValidate(id)
  \/ \E i \in 1..Len(http) : ActivateUpdate(i)
  \/ \E id \in FlowDocIds : Deactivate(id)
  \/ \E id \in FlowDocIds, dto \in PatchDtos : Patch(id, dto)
  \/ \E t \in TriggerTypes : FireTrigger(t)
  \/ \E i \in 1..Len(http), n \in 1..Cardinality(FlowDocIds) :
       ExecuteFlowCreate(i, n)
  \/ \E i \in 1..Len(http) : FireReturn(i)

CatalogSpec == CatalogInit /\ [][CatalogNext]_vars

\* FlowValidatorService applied to every candidate flow.
ValidatorInit ==
  /\ Created("direct", [order_total |-> Num(75)])
  /\ ServiceInit
  /\ flowDocs = <<>>
  /\ executionDocs = <<>>
  /\ http = <<>>
  /\ candidate \in Candidates(CandidateNodes)
  /\ validation = NotValidated

ValidatorNext == ValidateData

ValidatorSpec == ValidatorInit /\ [][ValidatorNext]_vars

\* executeConditionalSplit applied to every split configuration of up to
\* MaxGroups groups of up to MaxConditions conditions: the run of
\* trigger -> split -> end (on the true handle) on one order.
ConditionPool ==
  {[field |-> "order_total", operator |-> "greater_than",
    value |-> Str(<<"5", "0">>)],
   [field |-> "order_total", operator |-> "equals",
    value |-> Str(<<"1", "0">>)]}

ConditionLists(n) ==
  UNION {[1..m -> ConditionPool] : m \in 0..n}

\* A group with its conditions and groupLogic, or with neither field.
ConditionGroups(n) ==
  {[conditions |-> cs, groupLogic |-> l] :
     cs \in ConditionLists(n), l \in {"AND", "OR"}} \cup {EmptyConfig}

\* A configuration with its groups and groupsLogic, with conditionGroups
\* only, or with no field at all.
SplitConfigs(g, n) ==
  LET lists == UNION {[1..m -> ConditionGroups(n)] : m \in 0..g}
  IN {[conditionGroups |-> gs, groupsLogic |-> l] :
        gs \in lists, l \in {"AND", "OR"}}
     \cup {[conditionGroups |-> <<g1>>] : g1 \in ConditionGroups(n)}
     \cup {EmptyConfig}

SplitFlow(config) ==
  [name |-> "split",
   nodes |-> <<FlowNode("trigger", TRIGGER, EmptyConfig),
               FlowNode("split", CONDITIONAL_SPLIT, config),
               FlowNode("end", END, EmptyConfig)>>,
   edges |-> <<FlowEdge("e1", "trigger", "split", None),
               FlowEdge("e2", "split", "end", "true")>>]

EvalInit ==
  /\ \E config \in SplitConfigs(MaxGroups, MaxConditions) :
       CreatedFor(SplitFlow(config), [order_total |-> Num(75)])
  /\ ServiceInit
  /\ CatalogOfRun

EvalNext ==
  \/ \E k \in DOMAIN tasks : FindExisting(k)
  \/ \E k \in DOMAIN tasks : PushRunning(k)
  \/ \E k \in DOMAIN tasks : DispatchTrigger(k)
  \/ \E k \in DOMAIN tasks : Complete(k)
  \/ \E k \in DOMAIN tasks : DispatchSplit(k)
  \/ \E k \in DOMAIN tasks : EndInsert(k)
  \/ \E k \in DOMAIN tasks : EndArrive(k)
  \/ \E k \in DOMAIN tasks : EndComplete(k)
  \/ \E k \in DOMAIN tasks : EndMark(k)
  \/ \E k \in DOMAIN tasks : FlowStart(k)
  \/ \E k \in DOMAIN tasks : FlowReturn(k)

EvalSpec == EvalInit /\ [][EvalNext]_vars

TypeOK == status \in {"running", "delayed", "completed", "failed"}

\* ------------------------------------------------------------------ claims
\* The node ids of the entries, in order.
EntryIds(nodes) == [i \in 1..Len(nodes) |-> nodes[i].nodeId]

ArrivalCount(nodes, id) ==
  IF HasEntry(nodes, id) THEN FirstEntry(nodes, id).arrivalCount ELSE 0

EntryCompleted(nodes, id) ==
  HasEntry(nodes, id) /\ FirstEntry(nodes, id).status = "completed"

\* The run has come to rest with every resume job delivered once.
Settled ==
  /\ Quiescent
  /\ \A j \in 1..Len(delayQueue) : delayQueue[j].delivered = 1

\* The id of the flow's END node.
EndId(f) == f.nodes[CHOOSE i \in 1..Len(f.nodes) : f.nodes[i].type = END].id

\* The node ids along the single path that starts at id.
RECURSIVE PathFrom(_, _)
PathFrom(f, id) ==
  IF OutEdges(f, id) = <<>> THEN <<id>>
  ELSE <<id>> \o PathFrom(f, OutEdges(f, id)[1].target)

\* The executor of node id has been invoked, or the node has an entry.
Executed(id) ==
  \/ HasEntry(executedNodes, id)
  \/ \E c \in calls : c.node = id
  \/ \E k \in DOMAIN tasks : tasks[k].kind = "node" /\ tasks[k].node = id

\* C1: in every reachable state of a run, each action node's external call
\* (one idempotency key per run and node) has been performed at most once,
\* whatever the interleaving of branches, retries and redeliveries.
C1_EffectAtMostOnce == \A key \in DOMAIN effects : effects[key] <= 1

\* The diamond flow's node m has been called externally twice.
C1_TwoEffects ==
  /\ flow.name = "diamond"
  /\ \E key \in DOMAIN effects : effects[key] = 2

\* The calls made to adapter a with key.
CallsWith(a, key) ==
  {c \in 1..Len(requests) : requests[c].adapter = a /\ requests[c].key = key}

\* The calls to adapter a with key were made one after the other: each had
\* returned when the next was made.
OneAfterTheOther(a, key) ==
  \A c, d \in CallsWith(a, key) : c < d => c \in requests[d].after

\* C2: for each adapter, when the calls with an idempotency key are made one
\* after the other, every call after the first returns at once with the
\* first call's result and stores no record, and the key's record is stored
\* once.
C2_SecondCallSameResult ==
  \A i \in 1..Len(requests) : \A j \in requests[i].after :
    LET a == requests[i].adapter
        key == requests[i].key
    IN (/\ j \in CallsWith(a, key)
        /\ key # ""
        /\ OneAfterTheOther(a, key)) =>
         /\ requests[i].pc = "returned"
         /\ requests[i].result = requests[j].result
         /\ ~requests[i].stored
         /\ requests[i].result.id \in DOMAIN storage[a]
         /\ Cardinality({c \in CallsWith(a, key) : requests[c].stored}) = 1

\* An adapter has been called a second time with the key of a call that
\* stored a record and returned.
C2_CalledTwice ==
  \E i \in 1..Len(requests) : \E j \in requests[i].after :
    /\ j \in CallsWith(requests[i].adapter, requests[i].key)
    /\ requests[i].key # ""
    /\ OneAfterTheOther(requests[i].adapter, requests[i].key)
    /\ requests[j].stored
    /\ requests[i].pc = "returned"

\* C3: in a flow whose 2-way fan-out leads both paths into the same END
\* node, the run status is completed only when the END entry's arrivalCount
\* is at least 2, never while it is 1.
C3_CompletedOnlyAfterBothArrivals ==
  (/\ flow.name \in {"fanout", "delayFanOut", "parallelDelay"}
   /\ status = "completed") =>
    ArrivalCount(executedNodes, EndId(flow)) >= 2

\* The fan-out run completed on its second arrival.
C3_BothArrived ==
  /\ flow.name = "fanout"
  /\ status = "completed"
  /\ ArrivalCount(executedNodes, "end") = 2

\* C4: when executeFlow returns for a single-path flow without split or
\* delay whose nodes did not fail, the run status is completed and the
\* entries are exactly the flow's nodes in path order, each completed.
C4_SinglePathCompletes ==
  (/\ flow.name \in {"linear", "direct"}
   /\ faults = 0
   /\ tasks[HandlerKey("flow")].pc = "returned") =>
    /\ status = "completed"
    /\ Len(executedNodes) = Len(flow.nodes)
    /\ EntryIds(executedNodes) = PathFrom(flow, TriggerNode(flow).id)
    /\ \A i \in 1..Len(executedNodes) : executedNodes[i].status = "completed"

\* executeFlow has returned for the linear flow without a fault.
C4_LinearReturned ==
  /\ flow.name = "linear"
  /\ faults = 0
  /\ tasks[HandlerKey("flow")].pc = "returned"
  /\ Len(executedNodes) = 4

\* C5: a run of a structurally valid flow in which nothing failed and every
\* delay has been resumed is completed once it has come to rest.
C5_SettledRunCompleted ==
  (/\ flow.name \in {"linear", "direct", "fanout", "diamond", "demo",
                     "delayEnd", "delayFanOut", "parallelDelay"}
   /\ faults = 0
   /\ ~HasFailed(executedNodes)
   /\ Settled) =>
    status = "completed"

\* The demo run came to rest with its one branch arrived at END.
C5_DemoAtRest ==
  /\ flow.name = "demo"
  /\ faults = 0
  /\ Settled
  /\ Len(delayQueue) = 1
  /\ ArrivalCount(executedNodes, "end-1") = 1
  /\ status # "completed"

\* C6: once the fan-out run has come to rest, the trigger's two outgoing
\* edges have added exactly the child branches root_0 and root_1, and each
\* child branch has a terminal status (completed or failed).
C6_ChildBranchesTerminal ==
  (flow.name = "fanout" /\ Settled) =>
    /\ [i \in 1..Len(branches) |-> branches[i].branchId] =
         <<"root", "root_0", "root_1">>
    /\ \A i \in 2..Len(branches) :
         branches[i].status \in {"completed", "failed"}

\* The fan-out run completed with both child branches added.
C6_FanOutAtRest ==
  /\ flow.name = "fanout"
  /\ Settled
  /\ status = "completed"
  /\ Len(branches) = 3

\* The target of the first edge of split node id with sourceHandle h.
HandleTargets(f, id, h) ==
  {f.edges[i].target : i \in {j \in 1..Len(f.edges) :
                                /\ f.edges[j].source = id
                                /\ f.edges[j].sourceHandle = h}}

\* C7: order_total greater_than 50 is true for 75 and false for 10; the
\* engine runs the target of the edge whose sourceHandle is the result in
\* the split's branch once the split is completed, and never the target of
\* the other edge.
C7_SplitFollowsResult ==
  flow.name = "demo" =>
    LET big == triggerData.order_total.n = 75
        taken == HandleTargets(flow, "condition-1",
                               IF big THEN "true" ELSE "false")
        other == HandleTargets(flow, "condition-1",
                               IF big THEN "false" ELSE "true")
    IN /\ EvalConfig(DemoCondition, [order_total |-> Num(75)])
       /\ ~EvalConfig(DemoCondition, [order_total |-> Num(10)])
       /\ \A id \in other : ~Executed(id)
       /\ EntryCompleted(executedNodes, "condition-1") =>
            /\ FirstEntry(executedNodes, "condition-1").result.result
                 = big
            /\ \A id \in taken :
                 \E k \in DOMAIN tasks : /\ tasks[k].kind = "node"
                                         /\ tasks[k].node = id
                                         /\ tasks[k].branch = "root"

\* With order_total 10 the false path's message-2 has completed.
C7_FalsePathTaken ==
  /\ flow.name = "demo"
  /\ triggerData.order_total.n = 10
  /\ EntryCompleted(executedNodes, "message-2")

\* The invocations of TIME_DELAY nodes.
DelayTasks ==
  {d \in DOMAIN tasks : tasks[d].kind = "node" /\ TypeOf(d) = TIME_DELAY}

\* The invocations a resume handler made.
ResumedTasks ==
  {k \in DOMAIN tasks :
     /\ tasks[k].kind = "node"
     /\ tasks[k].parent \in DOMAIN tasks
     /\ tasks[tasks[k].parent].kind = "resume"}

\* C8: every node a resume callback executes is a next node of a delay
\* node and runs with the context that delay node was executed with, in the
\* delay's branch when it is the only next node; and once the callback has
\* launched its work every next node has been executed so.
C8_ResumeKeepsContext ==
  LET resumed == ResumedTasks
      delays == IF resumed = {} THEN {} ELSE DelayTasks
  IN /\ \A k \in resumed : \E d \in delays :
          LET next == NextNodeIds(flow, tasks[d].node)
          IN /\ \E i \in 1..Len(next) : next[i] = tasks[k].node
             /\ tasks[k].data = tasks[d].data
             /\ Len(next) = 1 => tasks[k].branch = tasks[d].branch
     /\ \A h \in DOMAIN tasks :
          (tasks[h].kind = "resume" /\ tasks[h].pc \in {"await", "returned"}) =>
            \A i \in 1..Len(tasks[h].nextNodeIds) :
              \E k \in resumed : /\ tasks[k].parent = h
                                 /\ tasks[k].node = tasks[h].nextNodeIds[i]
                                 /\ tasks[k].data = triggerData

\* A resume callback ran the delay's next node while the other branch of
\* the run had already been at work.
C8_ResumedBesideBranch ==
  /\ flow.name = "parallelDelay"
  /\ EntryCompleted(executedNodes, "b")
  /\ \E k \in ResumedTasks : tasks[k].pc = "resolved" /\ tasks[k].node = "end"

\* C9: when a resume job is delivered again to a run at rest, the record
\* (status, entries, END arrivalCount, branches) and the external calls are,
\* once the run is at rest again, what they were before the redelivery.
C9_RedeliveryChangesNothing ==
  (snapshot.taken /\ faults = 0 /\ Quiescent) => Record = snapshot.record

\* A job was delivered a second time and the run came to rest again.
C9_Redelivered ==
  /\ snapshot.taken
  /\ faults = 0
  /\ Quiescent
  /\ flow.name = "delayEnd"
  /\ ArrivalCount(executedNodes, "end") = 2

\* The run has exactly one failed entry, that of node id.
OnlyFailed(nodes, id) ==
  /\ HasFailed(nodes)
  /\ \A i \in 1..Len(nodes) : nodes[i].status = "failed" <=> nodes[i].nodeId = id

\* C10: once retryExecution has ended for a run whose only failed node now
\* succeeds (its config was repaired), that node's entry is completed and
\* the retry invoked no executor of an upstream or completed node.
C10_RetryCompletesFailedNode ==
  (/\ flow = RepairedMessageFlow
   /\ RetryKey \in DOMAIN tasks
   /\ tasks[RetryKey].pc \in {"returned", "rejected"}) =>
    /\ EntryCompleted(executedNodes, "message")
    /\ \A c \in calls : c.origin = "retry" => c.node \notin {"trigger", "note"}

\* retryExecution was called on the repaired run, whose only failed entry
\* is the message node's, and threw.
C10_RetryThrew ==
  /\ flow = RepairedMessageFlow
  /\ RetryKey \in DOMAIN tasks
  /\ tasks[RetryKey].pc = "rejected"
  /\ tasks[RetryKey].err = "Flow not found"
  /\ OnlyFailed(executedNodes, "message")

\* C11: once retryExecution has ended for a run that had a failed entry,
\* the entry is no longer failed, its error is cleared, the run status has
\* been set back to running and the failed node has been re-entered in
\* branch root with the run's original trigger payload.
C11_RetryReentersFailedNode ==
  (/\ RetryKey \in DOMAIN tasks
   /\ tasks[RetryKey].pc \in {"returned", "rejected"}) =>
    /\ tasks[RetryKey].err = None
    /\ \E c \in calls : /\ c.origin = "retry"
                        /\ c.branch = "root"
                        /\ c.data = triggerData

\* retryExecution has ended on a run with a failed entry: the entry still
\* is failed with its error and its retryCount, and no node was re-entered.
C11_RetryChangedNothing ==
  /\ RetryKey \in DOMAIN tasks
  /\ tasks[RetryKey].pc = "rejected"
  /\ HasFailed(executedNodes)
  /\ FirstFailed(executedNodes).error # None
  /\ FirstFailed(executedNodes).retryCount = MaxRetries
  /\ \A c \in calls : c.origin # "retry"

\* C12: the retryCount of an entry never exceeds 3.
C12_RetryCountAtMostThree ==
  \A i \in 1..Len(executedNodes) : executedNodes[i].retryCount <= MaxRetries

\* Two invocations of the diamond's broken node each read a retryCount below
\* 3 and each incremented it.
C12_RetryCountFour ==
  /\ flow.name = "diamondBroken"
  /\ faults = 0
  /\ HasEntry(executedNodes, "m")
  /\ FirstEntry(executedNodes, "m").retryCount = MaxRetries + 1

\* The targets of the outgoing edges of node id.
Successors(f, id) ==
  {OutEdges(f, id)[i].target : i \in 1..Len(OutEdges(f, id))}

\* C13: once a run in which a node exhausted its retries has come to rest,
\* that node's entry is failed with the error message, the run status is
\* failed and no successor of the node has been executed, whether the node
\* follows the trigger, another action node or a delay resume.
C13_ExhaustedNodeFailsRun ==
  (/\ flow.name \in {"unknown", "broken", "delayBroken"}
   /\ RetryKey \notin DOMAIN tasks
   /\ Quiescent
   /\ HasFailed(executedNodes)) =>
    /\ FirstFailed(executedNodes).error # None
    /\ status = "failed"
    /\ \A id \in Successors(flow, FirstFailed(executedNodes).nodeId) :
         ~Executed(id)

\* The node after the trigger exhausted its retries, executeFlow returned
\* and the run is at rest with status running.
C13_FailedNodeRunRunning ==
  /\ flow.name = "unknown"
  /\ RetryKey \notin DOMAIN tasks
  /\ Quiescent
  /\ OnlyFailed(executedNodes, "x")
  /\ FirstFailed(executedNodes).retryCount = MaxRetries
  /\ tasks[HandlerKey("flow")].pc = "returned"
  /\ status = "running"

C15_SiblingRunsToEnd ==
  (flow.name = "fanoutBroken" /\ Quiescent) =>
    /\ OnlyFailed(executedNodes, "message")
    /\ EntryCompleted(executedNodes, "b")
    /\ EntryCompleted(executedNodes, "c")
    /\ EntryCompleted(executedNodes, "end")
    /\ ArrivalCount(executedNodes, "end") = 1
    /\ \E c \in calls : c.node = "end" /\ c.branch = "root_1"

\* The sibling was still at work on c when the other branch had failed
\* terminally and the trigger's Promise.all had rejected.
C15_SiblingAtWorkAfterFailure ==
  /\ flow.name = "fanoutBroken"
  /\ OnlyFailed(executedNodes, "message")
  /\ NodeKey("flow", "root_1", "c") \in DOMAIN tasks
  /\ tasks[NodeKey("flow", "root", "trigger")].pc = "resolved"
  /\ tasks[NodeKey("flow", "root_1", "c")].pc = "api"

\* C16: a step that changes the run status of a completed or failed run is
\* a step of retryExecution.
C16_TerminalStatusStable ==
  [][(status \in {"completed", "failed"} /\ status' # status) =>
       (/\ RetryKey \in DOMAIN tasks
        /\ tasks'[RetryKey] # tasks[RetryKey])]_vars

\* A redelivered resume job found the run completed and its callback has
\* set the status to running.
C16_CompletedRunRunningAgain ==
  /\ snapshot.taken
  /\ snapshot.record.status = "completed"
  /\ status = "running"
  /\ RetryKey \notin DOMAIN tasks

\* C20: whenever the run status is failed, the record carries an error
\* summary and an entry that is failed with an error message.
C20_FailedRunExposesError ==
  status = "failed" =>
    /\ runError.error # None
    /\ runError.lastError # None
    /\ \E i \in 1..Len(executedNodes) :
         /\ executedNodes[i].status = "failed"
         /\ executedNodes[i].error # None

\* executeFlow found no trigger node and marked the run failed: the record
\* has neither an error summary nor a failed entry.
C20_FailedWithoutError ==
  /\ flow.name = "noTrigger"
  /\ status = "failed"
  /\ tasks[HandlerKey("flow")].err = "No trigger node found"
  /\ runError.error = None
  /\ executedNodes = <<>>

\* The execution documents created for request i.
RunsOf(i) == {e \in 1..Len(executionDocs) : executionDocs[e].request = i}

\* The flows that were active with the fired trigger type when request i
\* queried the collection.
Matching(i) ==
  {id \in DOMAIN http[i].seen :
     /\ http[i].seen[id].isActive
     /\ http[i].seen[id].triggerType = http[i].triggerType}

\* C17: a fireTrigger request creates runs only for flows that are active
\* with the fired trigger type, at most one for each; when it has returned
\* it has created exactly one for each such flow and reports their number
\* as flowsTriggered, which is 0 with no run when no flow matches.
C17_OneRunPerActiveFlow ==
  \A i \in 1..Len(http) :
    http[i].op = "fire" =>
      /\ \A e \in RunsOf(i) : executionDocs[e].flowId \in Matching(i)
      /\ \A id \in Matching(i) :
           Cardinality({e \in RunsOf(i) : executionDocs[e].flowId = id}) <= 1
      /\ http[i].pc = "returned" =>
           /\ Cardinality(RunsOf(i)) = Cardinality(Matching(i))
           /\ http[i].response.flowsTriggered = Cardinality(Matching(i))
           /\ Len(http[i].response.executions) = Cardinality(Matching(i))
           /\ \A n \in 1..Len(http[i].response.executions) :
                http[i].response.executions[n].executionId \in RunsOf(i)

\* NEW_ORDER was fired with two active NEW_ORDER flows and an active flow
\* of the other type: two runs.
C17_TwoFlowsTriggered ==
  \E i \in 1..Len(http) :
    /\ http[i].op = "fire"
    /\ http[i].pc = "returned"
    /\ http[i].triggerType = NEW_ORDER
    /\ http[i].response.flowsTriggered = 2
    /\ {executionDocs[e].flowId : e \in RunsOf(i)} = {"f1", "f2"}

\* No other request names the flow of request i.
Alone(i) == \A j \in 1..Len(http) : j # i => http[j].id # http[i].id

\* C18: an activate request for a flow whose validation reports errors
\* ends with BadRequest without writing, and leaves isActive as it was; a
\* request writes isActive = true only for a flow validate found valid.
C18_ActivateOnlyValidFlows ==
  \A i \in 1..Len(http) :
    (http[i].op = "activate" /\ http[i].id \in DOMAIN flowDocs) =>
      LET valid == Validate(http[i].read).valid
      IN /\ ~valid =>
              /\ http[i].pc = "rejected"
              /\ http[i].err = "BadRequest"
              /\ ~http[i].wrote
              /\ Alone(i) => flowDocs[http[i].id] = http[i].read
         /\ http[i].wrote =>
              /\ valid
              /\ Alone(i) =>
                   flowDocs[http[i].id] = [http[i].read EXCEPT !.isActive = TRUE]
         /\ (valid /\ http[i].pc = "returned") => http[i].wrote

\* activate was refused for the inactive flow saved without edges.
C18_InvalidFlowRefused ==
  \E i \in 1..Len(http) :
    /\ http[i].op = "activate"
    /\ http[i].id = "f1"
    /\ http[i].pc = "rejected"
    /\ http[i].err = "BadRequest"
    /\ Alone(i)
    /\ flowDocs["f1"].edges = <<>>
    /\ ~flowDocs["f1"].isActive

\* The node ids that can be reached from ids along the edges.
RECURSIVE ReachableFrom(_, _)
ReachableFrom(ids, edges) ==
  LET next == ids \cup {edges[i].target :
                          i \in {j \in 1..Len(edges) : edges[j].source \in ids}}
  IN IF next = ids THEN ids ELSE ReachableFrom(next, edges)

\* A path of one edge or more leads from id back to id.
OnCycle(id, edges) ==
  id \in ReachableFrom({edges[i].target :
                           i \in {j \in 1..Len(edges) : edges[j].source = id}},
                        edges)

\* The structural invariant the engine assumes of a flow.
WellFormed(f) ==
  LET triggers == {i \in 1..Len(f.nodes) : f.nodes[i].type = TRIGGER}
      ends == {i \in 1..Len(f.nodes) : f.nodes[i].type = END}
      targets == {f.edges[i].target : i \in 1..Len(f.edges)}
      sources == {f.edges[i].source : i \in 1..Len(f.edges)}
  IN /\ Cardinality(triggers) = 1
     /\ \A i \in triggers : f.nodes[i].id \notin targets
     /\ \E i \in ends : f.nodes[i].id \notin sources
     /\ targets \cup sources \subseteq NodeIds(f)
     /\ \A i \in triggers :
          NodeIds(f) \subseteq ReachableFrom({f.nodes[i].id}, f.edges)
     /\ \A id \in NodeIds(f) : ~OnCycle(id, f.edges)

\* C19: a flow for which validate returns valid = true has exactly one
\* TRIGGER node, without incoming edges, an END node without outgoing
\* edges, no edge naming a missing node, every node reachable from the
\* TRIGGER, and no cycle.
C19_ValidFlowsWellFormed == validation.valid => WellFormed(candidate)

\* The validator accepted a flow of four nodes and four edges.
C19_FourNodeFlowValid ==
  /\ validation.valid
  /\ Len(candidate.nodes) = 4
  /\ Len(candidate.edges) = 4

\* The invocations of executeNode that are about to read a completed entry
\* of their non-END node.
ReEntering ==
  {k \in DOMAIN tasks : /\ IsNodeTask(k, "find")
                        /\ EntryCompleted(executedNodes, tasks[k].node)}

\* C21: when executeNode is entered at a non-END node whose entry is
\* already completed, the invocation returns at its next step: no executor
\* is invoked, no external call is made, no entry or branch is added or
\* changed, no invocation is launched and the run status stays as it is.
C21_ReEntrySkips ==
  [][\A k \in ReEntering :
       tasks'[k] # tasks[k] =>
         /\ tasks' = [tasks EXCEPT ![k].pc = "resolved", ![k].existing = TRUE]
         /\ tasks[k].children = {}
         /\ calls' = calls
         /\ effects' = effects
         /\ executedNodes' = executedNodes
         /\ branches' = branches
         /\ delayQueue' = delayQueue
         /\ status' = status]_vars

\* The redelivered job of the delay fan-out flow re-entered node a, which
\* the first delivery had completed, and returned without calling a's
\* executor again.
C21_RedeliverySkippedNode ==
  /\ flow.name = "delayFanOut"
  /\ NodeKey("job1.1", "root_0", "a") \in DOMAIN tasks
  /\ tasks[NodeKey("job1.1", "root_0", "a")].pc = "resolved"
  /\ ~\E c \in calls : c.node = "a" /\ c.origin = "job1.1"
  /\ \E c \in calls : c.node = "a" /\ c.origin = "job1.0"

\* C22: in every reachable state the run's executedNodes holds at most one
\* entry per node id.
C22_OneEntryPerNode ==
  \A i, j \in 1..Len(executedNodes) :
    executedNodes[i].nodeId = executedNodes[j].nodeId => i = j

\* Both branches of the diamond found no entry for m and each pushed one;
\* the run has come to rest with two entries for m, the second one running.
C22_TwoEntries ==
  /\ flow.name = "diamond"
  /\ faults = 0
  /\ Quiescent
  /\ \E i, j \in 1..Len(executedNodes) :
       /\ i < j
       /\ executedNodes[i].nodeId = "m"
       /\ executedNodes[j].nodeId = "m"
       /\ executedNodes[j].status = "running"

\* The arrivals at END that have made their increment.
EndArrivals ==
  {k \in DOMAIN tasks : /\ tasks[k].kind = "node"
                        /\ TypeOf(k) = END
                        /\ tasks[k].pc \in {"end_status", "end_mark", "resolved"}}

\* The arrivals that saw arrivalCount >= expectedBranches in the document
\* their increment returned.
Observers ==
  {k \in EndArrivals :
     tasks[k].result.arrivalCount >= tasks[k].result.expectedBranches}

\* The entries of the END node.
EndEntries ==
  {i \in 1..Len(executedNodes) : executedNodes[i].nodeId = EndId(flow)}

\* No arrival is lost and no END entry is duplicated: one END entry, whose
\* arrivalCount is the number of arrivals, each of which got its own count.
ArrivalsCounted ==
  LET arrivals == EndArrivals
      entries == Cardinality(EndEntries)
  IN /\ entries <= 1
     /\ arrivals # {} =>
          /\ entries = 1
          /\ ArrivalCount(executedNodes, EndId(flow)) = Cardinality(arrivals)
          /\ {tasks[k].result.arrivalCount : k \in arrivals} =
               1..Cardinality(arrivals)
          /\ \A k \in arrivals :
               tasks[k].result.expectedBranches =
                 Len(InEdges(flow, EndId(flow)))
     /\ \A k \in DOMAIN tasks :
          IsNodeTask(k, "end_status") =>
            /\ k \in arrivals
            /\ tasks[k].result.arrivalCount >= tasks[k].result.expectedBranches

AtWork(k) ==
  /\ tasks[k].kind = "node"
  /\ tasks[k].pc \notin {"resolved", "rejected", "await"}

\* A branch other than k's is executing a node.
SiblingAtWork(k) ==
  \E h \in DOMAIN tasks : /\ tasks[h].branch # tasks[k].branch
                          /\ AtWork(h)

\* C24: the step of executeTimeDelay that saves the delay state sets the run
\* status to delayed only if no other branch of the run is executing a node;
\* while a sibling branch is, the run status stays as it is.
C24_DelayedOnlyWhenAlone ==
  [][\A k \in DOMAIN tasks :
       (/\ IsNodeTask(k, "dispatch")
        /\ TypeOf(k) = TIME_DELAY
        /\ tasks'[k].pc = "delay_mark") =>
         status' = IF SiblingAtWork(k) THEN status ELSE "delayed"]_vars

\* The delay of branch root_0 has set the run to delayed while branch root_1
\* is inside the adapter call of node b.
C24_DelayedBesideRunningSibling ==
  /\ flow.name = "parallelDelay"
  /\ status = "delayed"
  /\ IsNodeTask(NodeKey("flow", "root_0", "delay"), "delay_mark")
  /\ IsNodeTask(NodeKey("flow", "root_1", "b"), "api")
  /\ \E i \in 1..Len(branches) : /\ branches[i].branchId = "root_1"
                                 /\ branches[i].status = "running"

\* The resume handlers that are past the status handling of lines 40-63.
PastStatusHandling ==
  {h \in DOMAIN tasks : /\ tasks[h].kind = "resume"
                        /\ tasks[h].pc \in {"r_parent", "r_push", "await",
                                            "returned", "r_fail"}}

\* The resume jobs that have not been delivered yet.
Waiting == {j \in 1..Len(delayQueue) : delayQueue[j].delivered = 0}

\* C25: with both delays of the two-delay flow scheduled, once the resume
\* callback of one branch (delivered once) has handled the status while the
\* job of the other branch is still waiting for its delay, the run status is
\* still delayed and resumeAt is still set.
C25_StaysDelayedWhileOtherWaits ==
  (/\ flow.name = "twoDelays"
   /\ faults = 0
   /\ Len(delayQueue) = 2
   /\ Waiting # {}
   /\ \E h \in PastStatusHandling :
        delayQueue[tasks[h].job].delivered = 1) =>
    /\ status = "delayed"
    /\ resumeAt.set

\* Both delays of the two-delay flow are scheduled, the callback of one has
\* run to its end and the job of the other has not been delivered: the run
\* is running with resumeAt cleared, and no branch record was ever delayed.
C25_RunningWhileOtherWaits ==
  /\ flow.name = "twoDelays"
  /\ faults = 0
  /\ Len(delayQueue) = 2
  /\ Cardinality(Waiting) = 1
  /\ \E h \in PastStatusHandling : tasks[h].pc = "returned"
  /\ Quiescent
  /\ status = "running"
  /\ ~resumeAt.set
  /\ \A i \in 1..Len(branches) : branches[i].status = "running"

\* The record of branch id.
BranchRecord(bs, id) == bs[FirstBranch(bs, id)]

\* C26: the step of a resume callback that launches the delay's n next
\* nodes: if n > 1 the job's branch b is completed and the step adds the n
\* child branches b_0 .. b_(n-1), running, each with b's path, and runs next
\* node i in branch b_i; if n = 1 it adds no branch and runs the next node
\* in branch b.
C26_ResumeFansOut ==
  [][\A h \in DOMAIN tasks :
       (/\ tasks[h].kind = "resume"
        /\ tasks[h].pc # "await"
        /\ tasks'[h].pc = "await") =>
         LET ids == tasks[h].nextNodeIds
             b == tasks[h].branch
             n == Len(ids)
             child(i) == ChildBranchId(b, i - 1)
         IN IF n > 1
            THEN /\ BranchRecord(branches, b).status = "completed"
                 /\ branches' =
                      branches \o
                        [i \in 1..n |->
                           Branch(child(i), "running", ids[i],
                                  BranchRecord(branches, b).path)]
                 /\ \A i \in 1..n :
                      /\ NodeKey(OriginOf(h), child(i), ids[i]) \notin DOMAIN tasks
                      /\ NodeKey(OriginOf(h), child(i), ids[i]) \in DOMAIN tasks'
                      /\ NodeKey(OriginOf(h), child(i), ids[i])
                           \in tasks'[h].children
            ELSE /\ branches' = branches
                 /\ \A i \in 1..n :
                      /\ NodeKey(OriginOf(h), b, ids[i]) \notin DOMAIN tasks
                      /\ NodeKey(OriginOf(h), b, ids[i]) \in tasks'[h].children]_vars

\* The delay of branch root_0 has been resumed: root_0 is completed, its
\* children root_0_0 and root_0_1 carry its path and node a is at work in
\* root_0_0.
C26_ChildBranchesInheritPath ==
  /\ flow.name = "branchDelay"
  /\ Len(branches) = 5
  /\ BranchRecord(branches, "root_0").status = "completed"
  /\ BranchRecord(branches, "root_0").path = <<"trigger">>
  /\ branches[4] = Branch("root_0_0", "running", "a", <<"trigger">>)
  /\ branches[5] = Branch("root_0_1", "running", "end", <<"trigger">>)
  /\ IsNodeTask(NodeKey("job1.0", "root_0_0", "a"), "api")

\* The resume jobs enqueued for the delay invocation d.
JobsOf(d) ==
  {j \in 1..Len(delayQueue) : delayQueue[j].branchId = tasks[d].branch}

\* Node s has been entered along an edge that does not leave the node of
\* the delay invocation d: from another node, or by the resume callback of
\* another branch's delay.
EnteredOtherwise(s, d) ==
  \E k \in DOMAIN tasks :
    /\ tasks[k].kind = "node"
    /\ tasks[k].node = s
    /\ tasks[k].parent \in DOMAIN tasks
    /\ \/ /\ tasks[tasks[k].parent].kind = "node"
          /\ tasks[tasks[k].parent].node # tasks[d].node
       \/ /\ tasks[tasks[k].parent].kind = "resume"
          /\ tasks[tasks[k].parent].branch # tasks[d].branch

\* C27: an invocation of a TIME_DELAY node launches no successor; once it
\* has returned, its entry is completed and exactly one resume job has been
\* enqueued for it; and a successor of the delay has no entry before that
\* job has been delivered, unless it was entered along another edge.
C27_DelayDefers ==
  \A d \in DelayTasks :
    /\ tasks[d].children = {}
    /\ tasks[d].pc = "resolved" =>
         /\ EntryCompleted(executedNodes, tasks[d].node)
         /\ Cardinality(JobsOf(d)) = 1
    /\ \A s \in Successors(flow, tasks[d].node) :
         HasEntry(executedNodes, s) =>
           \/ \E j \in JobsOf(d) : delayQueue[j].delivered >= 1
           \/ EnteredOtherwise(s, d)

\* delayQueue.add rejected once: the delay's invocation has returned with
\* its entry completed and the run delayed, and no resume job exists.
C27_DelayedWithoutJob ==
  /\ flow.name = "delayEnd"
  /\ Quiescent
  /\ tasks[HandlerKey("flow")].pc = "returned"
  /\ EntryCompleted(executedNodes, "delay")
  /\ FirstEntry(executedNodes, "delay").retryCount = 1
  /\ status = "delayed"
  /\ delayQueue = <<>>

\* Invocation k of executeNode was made along an edge of the flow whose
\* source has a completed entry: by executeNode for the source, or by the
\* resume callback of a delay node that is the source.
EnteredAfterCompletion(k) ==
  LET p == tasks[k].parent
  IN CASE tasks[p].kind = "node" ->
            /\ tasks[k].node \in Successors(flow, tasks[p].node)
            /\ EntryCompleted(executedNodes, tasks[p].node)
       [] tasks[p].kind = "resume" ->
            \E d \in DelayTasks :
              /\ tasks[d].branch = tasks[p].branch
              /\ tasks[k].node \in Successors(flow, tasks[d].node)
              /\ EntryCompleted(executedNodes, tasks[d].node)
       [] OTHER -> FALSE

\* C28: every entry of executedNodes belongs to a node that executeNode was
\* invoked for, and every invocation other than the trigger's was made along
\* an edge (u, v) when the entry of u was completed, which it still is: the
\* entry of v is created only after the entry of u is completed.
C28_SuccessorAfterCompletion ==
  /\ \A i \in 1..Len(executedNodes) :
       \E k \in DOMAIN tasks : /\ tasks[k].kind = "node"
                               /\ tasks[k].node = executedNodes[i].nodeId
  /\ \A k \in DOMAIN tasks :
       tasks[k].kind = "node" =>
         \/ /\ tasks[tasks[k].parent].kind = "flow"
            /\ TypeOf(k) = TRIGGER
            /\ InEdges(flow, tasks[k].node) = <<>>
         \/ EnteredAfterCompletion(k)

\* In the linear flow the note node has just been given its running entry,
\* in the branch of the message node, whose entry is completed.
C28_NoteStartedAfterMessage ==
  /\ flow.name = "linear"
  /\ IsNodeTask(NodeKey("flow", "root", "note"), "dispatch")
  /\ HasEntry(executedNodes, "note")
  /\ FirstEntry(executedNodes, "note").status = "running"
  /\ EntryCompleted(executedNodes, "message")
  /\ tasks[NodeKey("flow", "root", "message")].branch = "root"

\* C29: once executeFlow has returned, no invocation of executeNode that it
\* started, directly or through a fan-out, is still between two of its
\* steps; and an executeNode that has returned from a fan-out has none of
\* the recursions it launched still at work.
C29_ReturnsAfterAllSettled ==
  /\ tasks[HandlerKey("flow")].pc = "returned" =>
       \A k \in DOMAIN tasks : OriginOf(k) = "flow" => ~AtWork(k)
  /\ \A k \in DOMAIN tasks :
       (/\ tasks[k].kind = "node"
        /\ tasks[k].pc \in {"resolved", "rejected"}
        /\ Len(OutEdges(flow, tasks[k].node)) > 1) =>
         \A c \in DOMAIN tasks :
           (tasks[c].kind = "node" /\ tasks[c].parent = k) => ~AtWork(c)

\* The message branch of the broken fan-out has failed for good, the
\* trigger's invocation and executeFlow have returned, and the sibling
\* branch is still inside the adapter call of node c.
C29_ReturnedWhileSiblingAtWork ==
  /\ flow.name = "fanoutBroken"
  /\ faults = 0
  /\ tasks[HandlerKey("flow")].pc = "returned"
  /\ tasks[NodeKey("flow", "root", "trigger")].pc = "resolved"
  /\ tasks[NodeKey("flow", "root_0", "message")].pc = "rejected"
  /\ NodeKey("flow", "root_1", "c") \in DOMAIN tasks
  /\ tasks[NodeKey("flow", "root_1", "c")].pc = "api"
  /\ status = "running"

\* C30: in the run of the flow whose split has no edge for the false handle,
\* with order_total 10, transient errors included: the split launches nothing and neither the message
\* node nor END is ever entered; no entry and not the run is failed, the run
\* is never completed, and once the split's invocation has returned its
\* entry is completed with result false.
C30_NoMatchingEdgeStopsBranch ==
  (flow.name = "splitNoFalse" /\ triggerData.order_total.n = 10) =>
    /\ ~Executed("message")
    /\ ~Executed("end")
    /\ ~HasFailed(executedNodes)
    /\ status = "running"
    /\ Len(branches) = 1
    /\ \A k \in DOMAIN tasks :
         (tasks[k].kind = "node" /\ tasks[k].node = "split") =>
           /\ tasks[k].children = {}
           /\ tasks[k].pc \in {"find", "push", "dispatch", "catch",
                               "catch_inc", "await"}
           /\ tasks[k].pc = "await" =>
                /\ EntryCompleted(executedNodes, "split")
                /\ ~FirstEntry(executedNodes, "split").result.result
                /\ Resolved(tasks, k)

\* The run has come to rest behind the split: executeFlow has returned, the
\* entries are the trigger's and the split's, both completed, and the run is
\* still running.
C30_StoppedAtSplit ==
  /\ flow.name = "splitNoFalse"
  /\ triggerData.order_total.n = 10
  /\ faults = 0
  /\ tasks[HandlerKey("flow")].pc = "returned"
  /\ EntryIds(executedNodes) = <<"trigger", "split">>
  /\ EntryCompleted(executedNodes, "split")
  /\ status = "running"

\* The invocations of CONDITIONAL_SPLIT nodes.
SplitTasks ==
  {k \in DOMAIN tasks : tasks[k].kind = "node" /\ TypeOf(k) = CONDITIONAL_SPLIT}

\* The invocations executeNode made from invocation k.
ChildrenOf(k) ==
  {c \in DOMAIN tasks : tasks[c].kind = "node" /\ tasks[c].parent = k}

\* C31: an invocation of a CONDITIONAL_SPLIT launches at most one successor,
\* in the split's own branch, and it is a target of the split; at most one
\* successor of the split is ever executed; and in the flows whose only
\* node with several outgoing edges is the split, no branch is ever added
\* to the run's root branch.
C31_SplitRunsOneSuccessor ==
  /\ \A k \in SplitTasks :
       LET children == ChildrenOf(k)
           successors == Successors(flow, tasks[k].node)
       IN /\ Cardinality(children) <= 1
          /\ \A c \in children :
               /\ tasks[c].branch = tasks[k].branch
               /\ tasks[c].node \in successors
          /\ Cardinality({s \in successors : Executed(s)}) <= 1
  /\ flow.name \in {"demo", "splitNoFalse", "splitTwoTrue"} =>
       /\ Len(branches) = 1
       /\ branches[1].branchId = "root"

\* The split with two edges on its true handle has run END, the target of
\* the first, in branch root; the run is at rest and the message node was
\* never entered.
C31_FirstTrueEdgeTaken ==
  /\ flow.name = "splitTwoTrue"
  /\ Quiescent
  /\ EntryCompleted(executedNodes, "split")
  /\ tasks[NodeKey("flow", "root", "end")].pc = "resolved"
  /\ ~Executed("message")
  /\ Len(branches) = 1

\* results.every(r => r), computed by recursion on the list.
RECURSIVE AllTrue(_)
AllTrue(results) ==
  IF results = <<>> THEN TRUE ELSE Head(results) /\ AllTrue(Tail(results))

\* results.some(r => r), computed by recursion on the list.
RECURSIVE AnyTrue(_)
AnyTrue(results) ==
  IF results = <<>> THEN FALSE ELSE Head(results) \/ AnyTrue(Tail(results))

\* The conjunction under AND, the disjunction under OR.
Folded(logic, results) ==
  IF logic = "AND" THEN AllTrue(results) ELSE AnyTrue(results)

\* The group results the configuration of the split node prescribes for
\* the trigger data: absent fields count as an empty list and as AND.
ExpectedGroups ==
  LET config == flow.nodes[2].config
      groups == IF "conditionGroups" \in DOMAIN config
                THEN config.conditionGroups ELSE <<>>
  IN [i \in 1..Len(groups) |->
        LET conds == IF "conditions" \in DOMAIN groups[i]
                     THEN groups[i].conditions ELSE <<>>
            logic == IF "groupLogic" \in DOMAIN groups[i]
                     THEN groups[i].groupLogic ELSE "AND"
        IN Folded(logic, [j \in 1..Len(conds) |->
                            EvalCondition(conds[j], triggerData)])]

ExpectedFinal ==
  LET config == flow.nodes[2].config
      logic == IF "groupsLogic" \in DOMAIN config
               THEN config.groupsLogic ELSE "AND"
  IN Folded(logic, ExpectedGroups)

\* C32: once the split has evaluated its configuration, the recorded group
\* results are the conjunction (AND) or disjunction (OR) of each group's
\* condition results and the recorded final result is the outer logic
\* applied to the group results in the same way; an empty list gives true
\* under AND and false under OR; the result depends on nothing but the
\* configuration and the trigger data, and END is entered exactly when it
\* is true.
C32_EvaluationFoldsConditions ==
  HasEntry(executedNodes, "split") /\ FirstEntry(executedNodes, "split").status = "completed" =>
    LET entry == FirstEntry(executedNodes, "split")
    IN /\ entry.result.groupResults = ExpectedGroups
       /\ entry.result.result = ExpectedFinal
       /\ \A i \in 1..Len(ExpectedGroups) :
            LET group == flow.nodes[2].config.conditionGroups[i]
            IN "conditions" \in DOMAIN group /\ group.conditions = <<>> =>
                 entry.result.groupResults[i] = (group.groupLogic = "AND")
       /\ ExpectedGroups = <<>> =>
            entry.result.result =
              ("groupsLogic" \in DOMAIN flow.nodes[2].config =>
                 flow.nodes[2].config.groupsLogic = "AND")
       /\ Executed("end") => entry.result.result

\* A configuration under OR whose first group is empty under AND (true)
\* and whose second is a true and a false condition under AND (false) has
\* been evaluated to true, and the run went on to END.
C32_EmptyAndGroupUnderOr ==
  /\ flow.name = "split"
  /\ HasEntry(executedNodes, "split")
  /\ FirstEntry(executedNodes, "split").status = "completed"
  /\ LET config == flow.nodes[2].config
     IN /\ "groupsLogic" \in DOMAIN config
        /\ config.groupsLogic = "OR"
        /\ Len(config.conditionGroups) = 2
        /\ config.conditionGroups[1] = [conditions |-> <<>>, groupLogic |-> "AND"]
        /\ "conditions" \in DOMAIN config.conditionGroups[2]
        /\ Len(config.conditionGroups[2].conditions) = 2
        /\ config.conditionGroups[2].groupLogic = "AND"
  /\ FirstEntry(executedNodes, "split").result.groupResults = <<TRUE, FALSE>>
  /\ FirstEntry(executedNodes, "split").result.result
  /\ Executed("end")

\* C33: once a run has status completed, none of its branches still has
\* status running (a branch is completed when child branches supersede it
\* at a fan-out or when it arrives at END).
C33_CompletedRunHasNoRunningBranch ==
  status = "completed" =>
    \A i \in 1..Len(branches) : branches[i].status # "running"

\* The fan-out run has completed without any error and is at rest: both
\* child branches arrived at END and the END node is completed, yet the
\* superseded root branch and both child branches still have status
\* running.
C33_BranchesRunningAfterCompletion ==
  /\ flow.name = "fanout"
  /\ Settled
  /\ faults = 0
  /\ status = "completed"
  /\ EntryCompleted(executedNodes, EndId(flow))
  /\ ArrivalCount(executedNodes, EndId(flow)) = 2
  /\ [i \in 1..Len(branches) |-> branches[i].status] =
       <<"running", "running", "running">>

\* The invocations of nodes whose type executeNode has no case for.
UnknownTypeTasks ==
  {k \in DOMAIN tasks :
     /\ tasks[k].kind = "node"
     /\ TypeOf(k) \notin ActionTypes \cup {TRIGGER, TIME_DELAY,
                                          CONDITIONAL_SPLIT, END}}

\* C34: a node of unknown type is not retried: its invocation never takes
\* the backoff-and-retry path of the catch block and the retryCount of its
\* entry stays 0.
C34_UnknownTypeNotRetried ==
  \A k \in UnknownTypeTasks :
    /\ tasks[k].pc # "catch_inc"
    /\ HasEntry(executedNodes, tasks[k].node) =>
         FirstEntry(executedNodes, tasks[k].node).retryCount = 0

\* Without any transient error, the node of unknown type was entered again
\* after each of three backoffs and only then marked failed, with the
\* error of the missing case and retryCount 3.
C34_UnknownTypeRetriedThrice ==
  /\ flow.name = "unknown"
  /\ faults = 0
  /\ HasEntry(executedNodes, "x")
  /\ FirstEntry(executedNodes, "x").status = "failed"
  /\ FirstEntry(executedNodes, "x").error = "Unknown node type"
  /\ FirstEntry(executedNodes, "x").retryCount = MaxRetries
  /\ \E k \in UnknownTypeTasks : tasks[k].pc = "rejected"

\* The ids of the flow's nodes of the given types.
NodeIdsOfTypes(f, types) ==
  {f.nodes[i].id : i \in {j \in 1..Len(f.nodes) : f.nodes[j].type \in types}}

\* Run ids of one length, as the store generates them.
SampleRunIds == {executionId, "e2"}

C36_UpstreamEntriesUntouched ==
  faults = 0 =>
    \A i \in 1..Len(executedNodes) :
      executedNodes[i].status = "completed" =>
        executedNodes[i].retryCount = 0

\* Without any transient error, the message node exhausted its retries and
\* failed; the note before it, completed long before, had its retryCount
\* raised to 1 by its own catch block and was entered again.
C36_AncestorRetryCountRaised ==
  /\ flow.name = "broken"
  /\ faults = 0
  /\ Quiescent
  /\ OnlyFailed(executedNodes, "message")
  /\ EntryCompleted(executedNodes, "note")
  /\ FirstEntry(executedNodes, "note").retryCount = 1
  /\ EntryCompleted(executedNodes, "trigger")
  /\ FirstEntry(executedNodes, "trigger").retryCount = 0

\* C37: whenever the run status is completed, no entry of the run has
\* status running and no resume job of the run is still waiting to be
\* delivered.
C37_CompletedMeansNothingInFlight ==
  status = "completed" =>
    /\ \A i \in 1..Len(executedNodes) : executedNodes[i].status # "running"
    /\ Waiting = {}

\* Without any error or redelivery, the diamond run was declared completed
\* by the first arrival at END, and END's entry is completed, while the
\* other branch's invocation of the merge node is still waiting for its
\* adapter call, its entry running.
C37_CompletedWithWorkInFlight ==
  /\ flow.name = "diamond"
  /\ faults = 0
  /\ status = "completed"
  /\ EntryCompleted(executedNodes, EndId(flow))
  /\ \E k \in DOMAIN tasks :
       /\ tasks[k].kind = "node"
       /\ tasks[k].node = "m"
       /\ tasks[k].pc = "api"
  /\ \E i \in 1..Len(executedNodes) :
       /\ executedNodes[i].nodeId = "m"
       /\ executedNodes[i].status = "running"

\* C38: the arrivalCount of an END node is at most the number of edges
\* whose target is that END node.
C38_ArrivalsWithinIncomingEdges ==
  \A i \in 1..Len(executedNodes) :
    executedNodes[i].nodeType = END =>
      executedNodes[i].arrivalCount <=
        Len(InEdges(flow, executedNodes[i].nodeId))

\* Without any error or redelivery, both invocations of the diamond's merge
\* node went on to END, which has one incoming edge, and each arrival was
\* counted.
C38_TwoArrivalsOverOneEdge ==
  /\ flow.name = "diamond"
  /\ faults = 0
  /\ Quiescent
  /\ Len(InEdges(flow, EndId(flow))) = 1
  /\ ArrivalCount(executedNodes, EndId(flow)) = 2
  /\ status = "completed"

\* C39: a delay is never lost: once the invocation of a TIME_DELAY node has
\* ended with the node's entry completed, a resume job carrying the delay's
\* next node ids, its context and its branch id has been enqueued (waiting
\* or delivered), even if enqueuing raised an error on the first attempt
\* and the node was retried.
C39_CompletedDelayHasJob ==
  \A d \in DelayTasks :
    (/\ tasks[d].pc \in {"resolved", "rejected"}
     /\ EntryCompleted(executedNodes, tasks[d].node)) =>
      \E j \in 1..Len(delayQueue) :
        /\ delayQueue[j].branchId = tasks[d].branch
        /\ delayQueue[j].nextNodeIds = NextNodeIds(flow, tasks[d].node)
        /\ delayQueue[j].context = Serialize(tasks[d].data)

\* delayQueue.add rejected once in the flow whose delay fans out: the retry
\* found the delay's entry completed and returned, the run is at rest with
\* status delayed, the queue is empty and no node after the delay has been
\* or will be entered.
C39_DelayLostAfterEnqueueError ==
  /\ flow.name = "delayFanOut"
  /\ Quiescent
  /\ faults = 1
  /\ \E d \in DelayTasks : tasks[d].pc = "resolved"
  /\ EntryCompleted(executedNodes, "delay")
  /\ FirstEntry(executedNodes, "delay").retryCount = 1
  /\ delayQueue = <<>>
  /\ status = "delayed"
  /\ \A s \in Successors(flow, "delay") : ~Executed(s)

\* Every stored flow with isActive = true passes validation.
ActiveFlowsValid(docs) ==
  \A id \in DOMAIN docs : docs[id].isActive => Validate(docs[id]).valid

\* C40: no operation on the stored flows takes a catalogue in which every
\* active flow passes validation to one in which some active flow does
\* not, so the trigger entry point only ever executes valid flows.
C40_ActiveFlowsStayValid ==
  [][ActiveFlowsValid(flowDocs) => ActiveFlowsValid(flowDocs')]_vars

\* The active flow f3, valid until then, was saved without its edges by an
\* update request and kept isActive = true; the fireTrigger request that
\* followed found it among the active flows and created a run for it.
C40_InvalidActiveFlowExecuted ==
  /\ Len(http) = 2
  /\ http[1].op = "update"
  /\ http[1].id = "f3"
  /\ http[2].op = "fire"
  /\ flowDocs["f3"].isActive
  /\ ~Validate(flowDocs["f3"]).valid
  /\ ~Validate(http[2].seen["f3"]).valid
  /\ \E e \in RunsOf(2) : executionDocs[e].flowId = "f3"

====
